---- MODULE Spec2Model ----
(***************************************************************************)
(* Perception fusion and risk pipeline of the visual obstacle avoidance    *)
(* system: TTCEstimator (src/src/risk/ttc_estimator.py), RiskAssessor      *)
(* (src/src/risk/risk_assessor.py), the alert cooldown logic of            *)
(* VisualObstacleAvoidanceSystem._handle_risk_alerts (src/src/main.py) and *)
(* RadarFusionInterface.fuse_with_vision                                   *)
(* (src/src/interface/brake_interface.py).                                 *)
(*                                                                         *)
(* Numbers.  Timestamps are whole seconds.  Distances are integers in the  *)
(* unit stated at each component.  A quotient the code computes in floats  *)
(* is kept exact as a pair <<numerator, denominator>> with a positive      *)
(* denominator and compared by cross-multiplication.                       *)
(***************************************************************************)
EXTENDS Integers, Sequences, FiniteSets, TLC

(***************************************************************************)
(* Bounds of the model.                                                    *)
(***************************************************************************)
MaxTime == 3            \* estimate_ttc timestamps range over 0..MaxTime
MaxObjs == 2            \* objects per estimate_ttc call in SpecTTC

(***************************************************************************)
(* Generic helpers.                                                        *)
(***************************************************************************)
None == <<>>

Restrict(f, S) == [x \in S |-> f[x]]

Put(f, k, v) == [x \in (DOMAIN f) \cup {k} |-> IF x = k THEN v ELSE f[x]]

\* exact comparison of non-negative quotients a = <<n, d>>, d > 0
RatLt(a, b) == a[1] * b[2] < b[1] * a[2]

RatEq(a, b) == a[1] * b[2] = b[1] * a[2]

RatLe(a, b) == a[1] * b[2] <= b[1] * a[2]

\* Python's floor division by a positive integer
FloorDiv(a, b) == a \div b

(***************************************************************************)
(* State.                                                                  *)
(***************************************************************************)
VARIABLES
    history_size,         \* TTCEstimator.history_size
    min_frames_for_ttc,   \* TTCEstimator.min_frames_for_ttc
    object_history,       \* TTCEstimator.object_history: id -> deque of samples
    results,              \* list returned by the last estimate_ttc call
    current_time,         \* current_time of the last estimate_ttc call
    in_order,             \* every call so far had a time >= the one before
    evictions,            \* ids whose deque was full at an append of the last call
    purged                \* ids the last call found tracked and left untracked

ttc_vars == <<history_size, min_frames_for_ttc, object_history, results,
              current_time, in_order, evictions, purged>>

VARIABLES
    safe_distance,        \* RiskAssessor thresholds, decimetres
    warning_distance,
    danger_distance,
    brake_distance,
    risk_threshold,       \* RiskAssessor.risk_threshold, thousandths
    risk_objects,         \* the argument of assess_risk
    risk_info             \* the result of assess_risk

risk_vars == <<safe_distance, warning_distance, danger_distance,
               brake_distance, risk_threshold, risk_objects, risk_info>>

VARIABLES
    radar_objects,        \* RadarFusionInterface.radar_objects
    vision_objects,       \* the vision_objects of the last fuse_with_vision
    max_association_distance,  \* its max_association_distance, decimetres
    fused_objects,        \* the list that call returned
    fused_current         \* radar_objects is still the list that call read

radar_vars == <<radar_objects, vision_objects, max_association_distance,
                fused_objects, fused_current>>

VARIABLES
    last_road_risk_time,  \* VisualObstacleAvoidanceSystem.last_road_risk_time
    voice_calls,          \* voice alerts called by the last frame, in order
    alert_time,           \* time.time() read by the last _handle_risk_alerts
    alert_cond,           \* alert kinds whose condition held in the last frame
    refired,              \* the last frame fired a kind that had fired before
    watched               \* kinds whose condition may hold in this run

alert_vars == <<last_road_risk_time, voice_calls, alert_time, alert_cond,
                refired, watched>>

VARIABLES
    depth_map,            \* the depth map given to InfoFusion
    detections,           \* the detections given to fuse_detection_and_depth
    segmentation_masks,   \* the masks given to fuse_detection_and_depth
    fused_list,           \* the list fuse_detection_and_depth returned
    extract_mask,         \* the mask given to _extract_depth_from_mask
    region_depth,         \* <<the float it returned>>, <<>> before the call
    filter_in,            \* the list given to filter_by_depth
    min_depth,            \* its bounds
    max_depth,
    filter_out,           \* the list it returned
    fusion_pc             \* which InfoFusion calls have returned

fusion_vars == <<depth_map, detections, segmentation_masks, fused_list,
                 extract_mask, region_depth, filter_in, min_depth, max_depth,
                 filter_out, fusion_pc>>

VARIABLES
    brake_state,          \* BrakeInterface: [brake_flag, brake_level]
    frame_stages          \* the stages the last process_frame ran, in order

frame_vars == <<brake_state, frame_stages>>

VARIABLES
    threads,              \* the VideoThread objects created: [running, pc]
    video_thread,         \* PyQtDisplay.video_thread: index in threads
    start_enabled,        \* start_button.isEnabled()
    stop_enabled,         \* stop_button.isEnabled()
    gui_pc                \* where the GUI thread is

display_vars == <<threads, video_thread, start_enabled, stop_enabled, gui_pc>>

VARIABLES
    brake_lock,           \* BrakeInterface.lock: the caller holding it
    callers,              \* the threads calling BrakeInterface: their position
    callbacks,            \* BrakeInterface.callbacks: what each callback does
    committed             \* the (flag, level) pairs locked sections have left

brake_vars == <<brake_lock, callers, callbacks, committed>>

VARIABLES
    mono_pc,              \* where the mono frame is in its radar stage
    mono_i,               \* index of the vision object the loop is at
    radar_snapshot,       \* the local radar_objects of fuse_with_vision
    radar_seen,           \* the lists the interface held since the guard
    guard_len             \* the length the guard of the frame found

mono_vars == <<mono_pc, mono_i, radar_snapshot, radar_seen, guard_len>>

vars == <<ttc_vars, risk_vars, radar_vars, alert_vars, fusion_vars, frame_vars,
          display_vars, brake_vars, mono_vars>>

(***************************************************************************)
(* TTCEstimator.                                                           *)
(***************************************************************************)
\* _cleanup_history's default max_age, seconds
max_age == 2

\* the sanity bound on a TTC, seconds
max_ttc == 100

\* bounding boxes <<x1, y1, x2, y2>>: both have their centre in the
\* 50-pixel bucket (0, 0)
BoxA == <<0, 0, 40, 40>>

BoxB == <<20, 0, 60, 40>>

\* objects of a frame; depth is in decimetres.  The two car boxes share
\* one fingerprint, the person has its own.
CarObjects ==
    [class : {"car"}, bbox : {BoxA}, depth : {0, 80, 100}]
    \cup [class : {"car"}, bbox : {BoxB}, depth : {99}]

Objects ==
    {[class |-> "car", bbox |-> BoxA, depth |-> 100],
     [class |-> "car", bbox |-> BoxB, depth |-> 80],
     [class |-> "person", bbox |-> BoxA, depth |-> 80]}

ObjectLists == UNION {[1..n -> Objects] : n \in 0..MaxObjs}

\* (history_size, min_frames_for_ttc) pairs explored
Configs == {<<1, 1>>, <<2, 2>>, <<3, 2>>, <<3, 3>>}

SmallConfigs == {<<1, 1>>, <<2, 2>>}

\* obj.get('class', 'unknown')
object_class(obj) == IF "class" \in DOMAIN obj THEN obj.class ELSE "unknown"

\* f"{obj_class}_{int(center_x//50)}_{int(center_y//50)}", as the triple
\* of its three parts; the centre is a half-integer at most, and its
\* bucket is the bucket of its integer part
generate_object_id(obj) ==
    LET bbox == obj.bbox
        center_x == (bbox[1] + bbox[3]) \div 2
        center_y == (bbox[2] + bbox[4]) \div 2
    IN  <<object_class(obj), FloorDiv(center_x, 50), FloorDiv(center_y, 50)>>

\* a deque that never evicts
deque_append_unbounded(d, x, maxlen) == Append(d, x)

\* deque(maxlen=n).append(x): drops from the left when full; a deque of
\* maxlen 0 stays empty
deque_append(d, x, maxlen) ==
    IF maxlen = 0 THEN <<>>
    ELSE IF Len(d) >= maxlen THEN Append(Tail(d), x)
    ELSE Append(d, x)

\* the whole history instead of its last n samples
last_slice_whole(history, n) == history

\* list(history)[-n:]; a slice [-0:] is the whole list
last_slice(history, n) ==
    IF n = 0 \/ n >= Len(history) THEN history
    ELSE SubSeq(history, Len(history) - n + 1, Len(history))

\* the sign of the distance change kept
relative_speed_unsigned(dd, dt) == <<dd, dt>>

\* relative_speed = -dd / dt, kept as the pair <<-dd, dt>>; dt > 0
relative_speed_of(dd, dt) == <<0 - dd, dt>>

\* the test on the number of samples left out
too_few_frames_never(history, min_frames) == FALSE

\* len(history) < self.min_frames_for_ttc
too_few_frames(history, min_frames) == Len(history) < min_frames

calculate_ttc(hist, obj_id, min_frames) ==
    IF obj_id \notin DOMAIN hist THEN None
    ELSE LET history == hist[obj_id] IN
    IF too_few_frames(history, min_frames) THEN None
    ELSE LET recent == last_slice(history, min_frames) IN
    IF Len(recent) < 2 THEN None
    ELSE LET dt == recent[Len(recent)].timestamp - recent[1].timestamp IN
    IF dt <= 0 THEN None
    ELSE LET dd == recent[Len(recent)].distance - recent[1].distance
             relative_speed == relative_speed_of(dd, dt)
         IN
    IF relative_speed[1] <= 0 THEN None
    ELSE LET current_distance == recent[Len(recent)].distance
             \* ttc = current_distance / relative_speed
             ttc == <<current_distance * relative_speed[2], relative_speed[1]>>
         IN
    IF ttc[1] < 0 \/ ttc[1] > max_ttc * ttc[2] THEN None
    ELSE ttc

\* the purge keyed on the newest sample of a history
cleanup_history_newest(hist, now) ==
    LET expired_ids == {obj_id \in DOMAIN hist :
                            /\ Len(hist[obj_id]) > 0
                            /\ now - hist[obj_id][Len(hist[obj_id])].timestamp
                                 > max_age}
    IN  Restrict(hist, (DOMAIN hist) \ expired_ids)

cleanup_history(hist, now) ==
    LET expired_ids == {obj_id \in DOMAIN hist :
                            /\ Len(hist[obj_id]) > 0
                            /\ now - hist[obj_id][1].timestamp > max_age}
    IN  Restrict(hist, (DOMAIN hist) \ expired_ids)

\* the body of estimate_ttc's loop for one object; full tells whether the
\* deque was at maxlen when the sample was appended
estimate_one(hist, obj, now, maxlen, min_frames) ==
    LET obj_id == generate_object_id(obj)
        h0 == IF obj_id \in DOMAIN hist THEN hist ELSE Put(hist, obj_id, <<>>)
        h1 == Put(h0, obj_id,
                  deque_append(h0[obj_id],
                               [timestamp |-> now, distance |-> obj.depth],
                               maxlen))
        ttc == calculate_ttc(h1, obj_id, min_frames)
    IN  [hist |-> h1,
         full |-> IF Len(h0[obj_id]) >= maxlen THEN {obj_id} ELSE {},
         \* obj.copy() with the keys ttc and ttc_valid set
         out  |-> Put(Put(obj, "ttc", ttc), "ttc_valid",
                      ttc # None /\ ttc[1] > 0)]

RECURSIVE estimate_loop(_, _, _, _, _, _, _)
estimate_loop(hist, objects, now, maxlen, min_frames, acc, full) ==
    IF objects = <<>> THEN [hist |-> hist, results |-> acc, full |-> full]
    ELSE LET step == estimate_one(hist, Head(objects), now, maxlen, min_frames)
         IN  estimate_loop(step.hist, Tail(objects), now, maxlen, min_frames,
                           Append(acc, step.out), full \cup step.full)

\* TTCEstimator.__init__ with the given configuration
TTCStart(configs) ==
    /\ \E c \in configs : history_size = c[1] /\ min_frames_for_ttc = c[2]
    /\ object_history = <<>>
    /\ results = <<>>
    /\ current_time = 0
    /\ in_order = TRUE
    /\ evictions = {}
    /\ purged = {}

estimate_ttc(objects, now) ==
    \E run \in {estimate_loop(object_history, objects, now, history_size,
                              min_frames_for_ttc, <<>>, {})} :
    \E kept \in {cleanup_history(run.hist, now)} :
        /\ object_history' = kept
        /\ results' = run.results
        /\ current_time' = now
        /\ in_order' = (in_order /\ now >= current_time)
        /\ evictions' = run.full
        /\ purged' = (DOMAIN object_history) \ (DOMAIN kept)
        /\ UNCHANGED <<history_size, min_frames_for_ttc>>

\* frames of up to MaxObjs objects, presented in time order
TTCNext ==
    \E objects \in ObjectLists, now \in current_time..MaxTime :
        estimate_ttc(objects, now)

\* one object per call, any timestamp
TTCAnyNext ==
    \E obj \in CarObjects, now \in 0..MaxTime : estimate_ttc(<<obj>>, now)

(***************************************************************************)
(* RiskAssessor.  Distances are decimetres, scores thousandths kept as     *)
(* <<numerator, denominator>>.                                             *)
(***************************************************************************)
MaxRiskObjs == 2        \* objects per assess_risk call

\* (danger_distance, warning_distance, safe_distance), danger < warning < safe
RiskDistances == {<<10, 20, 50>>, <<15, 30, 50>>}

BrakeDistances == {0, 25}

RiskThresholds == {500, 700}

RiskDepths == {0, 10, 15, 20, 25, 50, 51, 300}

RiskObjects ==
    [class : {"car"}, depth : RiskDepths]
    \cup [class : {"person"}, depth : {10, 50}]

RiskObjectLists == UNION {[1..n -> RiskObjects] : n \in 0..MaxRiskObjs}

\* the value risk_info holds before assess_risk has returned
NoRiskInfo ==
    [risk_level |-> "unset", risk_score |-> <<0, 1>>, nearest_object |-> <<>>,
     should_brake |-> FALSE]

\* min(objects, key=lambda x: x['depth']): the first object of least depth
RECURSIVE min_by_depth(_, _)
min_by_depth(best, rest) ==
    IF rest = <<>> THEN best
    ELSE IF Head(rest).depth < best.depth THEN min_by_depth(Head(rest), Tail(rest))
    ELSE min_by_depth(best, Tail(rest))

\* a level that puts the danger threshold itself outside danger
risk_level_open(d, danger, warning, safe) ==
    IF d < danger THEN "danger"
    ELSE IF d <= safe THEN "warning"
    ELSE "safe"

risk_level_of(d, danger, warning, safe) ==
    IF d <= danger THEN "danger"
    ELSE IF d <= warning THEN "warning"
    ELSE IF d <= safe THEN "warning"
    ELSE "safe"

\* the nearer warning formula started at 0.6 instead of 0.5
raw_risk_score_near600(d, danger, warning, safe) ==
    IF d <= danger THEN <<1000 * danger - 500 * d, danger>>
    ELSE IF d <= warning
        THEN <<600 * (warning - danger) + 300 * (warning - d), warning - danger>>
    ELSE IF d <= safe
        THEN <<200 * (safe - warning) + 300 * (safe - d), safe - warning>>
    ELSE IF 200 - (d - safe) > 0 THEN <<200 - (d - safe), 1>>
    ELSE <<0, 1>>

\* the farther warning formula started at 0.3 instead of 0.2
raw_risk_score_far300(d, danger, warning, safe) ==
    IF d <= danger THEN <<1000 * danger - 500 * d, danger>>
    ELSE IF d <= warning
        THEN <<500 * (warning - danger) + 300 * (warning - d), warning - danger>>
    ELSE IF d <= safe
        THEN <<300 * (safe - warning) + 300 * (safe - d), safe - warning>>
    ELSE IF 200 - (d - safe) > 0 THEN <<200 - (d - safe), 1>>
    ELSE <<0, 1>>

\* the score before clipping; (d - safe) * 0.01 with d in metres is
\* (d - safe) thousandths with d in decimetres
raw_risk_score(d, danger, warning, safe) ==
    IF d <= danger THEN <<1000 * danger - 500 * d, danger>>
    ELSE IF d <= warning
        THEN <<500 * (warning - danger) + 300 * (warning - d), warning - danger>>
    ELSE IF d <= safe
        THEN <<200 * (safe - warning) + 300 * (safe - d), safe - warning>>
    ELSE IF 200 - (d - safe) > 0 THEN <<200 - (d - safe), 1>>
    ELSE <<0, 1>>

\* np.clip(risk_score, 0.0, 1.0)
clip_score(x) ==
    IF x[1] < 0 THEN <<0, 1>>
    ELSE IF x[1] > 1000 * x[2] THEN <<1000, 1>>
    ELSE x

\* both conditions required
should_brake_both(d, score, brake, threshold) ==
    d <= brake /\ score[1] >= threshold * score[2]

should_brake_of(d, score, brake, threshold) ==
    d <= brake \/ score[1] >= threshold * score[2]

\* braking also when an object has a valid TTC of 3 s or less
assess_risk_ttc(objects, danger, warning, safe, brake, threshold) ==
    IF objects = <<>>
    THEN [risk_level |-> "safe", risk_score |-> <<0, 1>>,
          nearest_object |-> <<>>, should_brake |-> FALSE]
    ELSE LET nearest_obj == min_by_depth(Head(objects), Tail(objects))
             nearest_distance == nearest_obj.depth
             risk_score == clip_score(raw_risk_score(nearest_distance, danger,
                                                     warning, safe))
         IN  [risk_level |-> risk_level_of(nearest_distance, danger, warning, safe),
              risk_score |-> risk_score,
              nearest_object |-> <<nearest_obj>>,
              should_brake |->
                  \/ should_brake_of(nearest_distance, risk_score, brake,
                                     threshold)
                  \/ \E i \in 1..Len(objects) :
                         /\ "ttc_valid" \in DOMAIN objects[i]
                         /\ objects[i].ttc_valid
                         /\ objects[i].ttc[1] <= 3 * objects[i].ttc[2]]

assess_risk(objects, danger, warning, safe, brake, threshold) ==
    IF objects = <<>>
    THEN [risk_level |-> "safe", risk_score |-> <<0, 1>>,
          nearest_object |-> <<>>, should_brake |-> FALSE]
    ELSE LET nearest_obj == min_by_depth(Head(objects), Tail(objects))
             nearest_distance == nearest_obj.depth
             risk_score == clip_score(raw_risk_score(nearest_distance, danger,
                                                     warning, safe))
         IN  [risk_level |-> risk_level_of(nearest_distance, danger, warning, safe),
              risk_score |-> risk_score,
              nearest_object |-> <<nearest_obj>>,
              should_brake |-> should_brake_of(nearest_distance, risk_score,
                                               brake, threshold)]

\* RiskAssessor.__init__ with the given thresholds
RiskStart(distances, brakes, thresholds, lists) ==
    /\ risk_objects \in lists
    /\ danger_distance \in {t[1] : t \in distances}
    /\ warning_distance \in {t[2] : t \in distances}
    /\ safe_distance \in {t[3] : t \in distances}
    /\ <<danger_distance, warning_distance, safe_distance>> \in distances
    /\ brake_distance \in brakes
    /\ risk_threshold \in thresholds
    /\ risk_info = NoRiskInfo

\* the default thresholds of RiskAssessor.__init__
DefaultDistances == {<<10, 20, 50>>}


AssessRisk ==
    /\ risk_info = NoRiskInfo
    /\ risk_info' = assess_risk(risk_objects, danger_distance, warning_distance,
                                safe_distance, brake_distance, risk_threshold)
    /\ UNCHANGED <<safe_distance, warning_distance, danger_distance,
                   brake_distance, risk_threshold, risk_objects>>

(***************************************************************************)
(* RadarFusionInterface.  Positions and distances are decimetres.          *)
(***************************************************************************)
MaxRadar == 2           \* radar returns per update_radar_data call
MaxVision == 2          \* vision objects per fuse_with_vision call

\* azimuths are 0 and 37 degrees, 37 standing for asin(3/5) = 36.87 degrees
\* 5 * sin(azimuth) and 5 * cos(azimuth)
Sin5(azimuth) == IF azimuth = 0 THEN 0 ELSE 3

Cos5(azimuth) == IF azimuth = 0 THEN 5 ELSE 4

RadarReturns ==
    [distance : {50, 60, 65}, azimuth : {0}]
    \cup [distance : {50}, azimuth : {37}]

VisionObjects ==
    {[class |-> "car", depth |-> 54, pos3d |-> <<0, 0, 55>>],
     [class |-> "person", depth |-> 52, pos3d |-> <<30, 0, 40>>]}

AssociationDistances == {5, 10}

RadarLists == UNION {[1..n -> RadarReturns] : n \in 0..MaxRadar}

VisionLists == UNION {[1..n -> VisionObjects] : n \in 0..MaxVision}

\* 25 times the squared (x, z) distance between a vision position and a
\* radar return: radar_x = dist * sin(az), radar_z = dist * cos(az)
dist_sq25(pos, radar_obj) ==
    LET radar_x5 == radar_obj.distance * Sin5(radar_obj.azimuth)
        radar_z5 == radar_obj.distance * Cos5(radar_obj.azimuth)
        dx5 == 5 * pos[1] - radar_x5
        dz5 == 5 * pos[3] - radar_z5
    IN  dx5 * dx5 + dz5 * dz5

\* a return exactly at the association distance accepted
closer_or_equal(dist2, min_dist2, has_min, max_dist) ==
    (~has_min \/ dist2 < min_dist2) /\ dist2 <= 25 * max_dist * max_dist

\* dist < min_dist and dist < max_association_distance, on squares;
\* has_min is false while min_dist is still infinite
closer(dist2, min_dist2, has_min, max_dist) ==
    (~has_min \/ dist2 < min_dist2) /\ dist2 < 25 * max_dist * max_dist

\* the inner loop: index of the associated return in radar, 0 for none
RECURSIVE associate(_, _, _, _, _, _)
associate(pos, radar, k, best, min_dist2, max_dist) ==
    IF k > Len(radar) THEN best
    ELSE LET dist2 == dist_sq25(pos, radar[k]) IN
         IF closer(dist2, min_dist2, best # 0, max_dist)
         THEN associate(pos, radar, k + 1, k, dist2, max_dist)
         ELSE associate(pos, radar, k + 1, best, min_dist2, max_dist)

\* an associated object that keeps its vision depth
fuse_one_vision_depth(vision_obj, radar, max_dist) ==
    LET associated_radar == associate(vision_obj.pos3d, radar, 1, 0, 0, max_dist)
    IN  [class |-> vision_obj.class, pos3d |-> vision_obj.pos3d,
         radar_fused |-> (associated_radar # 0),
         radar_distance |-> IF associated_radar # 0
                            THEN radar[associated_radar].distance ELSE 0,
         depth |-> vision_obj.depth,
         associated_radar |-> associated_radar]

\* the fused object; associated_radar is the index of the return used
fuse_one(vision_obj, radar, max_dist) ==
    LET associated_radar == associate(vision_obj.pos3d, radar, 1, 0, 0, max_dist)
    IN  IF associated_radar # 0
        THEN [class |-> vision_obj.class, pos3d |-> vision_obj.pos3d,
              radar_fused |-> TRUE,
              radar_distance |-> radar[associated_radar].distance,
              depth |-> radar[associated_radar].distance,
              associated_radar |-> associated_radar]
        ELSE [class |-> vision_obj.class, pos3d |-> vision_obj.pos3d,
              radar_fused |-> FALSE,
              radar_distance |-> 0,
              depth |-> vision_obj.depth,
              associated_radar |-> 0]

fuse_list(vision, radar, max_dist) ==
    IF radar = <<>> THEN vision
    ELSE [i \in 1..Len(vision) |-> fuse_one(vision[i], radar, max_dist)]

\* RadarFusionInterface.__init__
RadarStart(distances) ==
    /\ radar_objects = <<>>
    /\ vision_objects = <<>>
    /\ max_association_distance \in distances
    /\ fused_objects = <<>>
    /\ fused_current = TRUE

update_radar_data(radar_objects_list) ==
    /\ radar_objects' = radar_objects_list
    /\ fused_current' = (fused_current /\ radar_objects_list = radar_objects)
    /\ UNCHANGED <<vision_objects, max_association_distance, fused_objects>>

fuse_with_vision(vision, max_dist) ==
    /\ vision_objects' = vision
    /\ max_association_distance' = max_dist
    /\ fused_objects' = fuse_list(vision, radar_objects, max_dist)
    /\ fused_current' = TRUE
    /\ UNCHANGED radar_objects

UpdateRadarData ==
    /\ \E l \in RadarLists : update_radar_data(l)
    /\ UNCHANGED <<ttc_vars, risk_vars, alert_vars, fusion_vars, frame_vars, display_vars, brake_vars, mono_vars>>

FuseWithVision ==
    /\ \E v \in VisionLists, m \in AssociationDistances : fuse_with_vision(v, m)
    /\ UNCHANGED <<ttc_vars, risk_vars, alert_vars, fusion_vars, frame_vars, display_vars, brake_vars, mono_vars>>

RadarNext == UpdateRadarData \/ FuseWithVision

(***************************************************************************)
(* Alert cooldown logic of _handle_risk_alerts.  Times are whole seconds   *)
(* of the wall clock, which is far larger than any cooldown; StartTime     *)
(* stands for its value when the system starts.                            *)
(***************************************************************************)
StartTime == 4          \* wall clock at start-up
MaxKinds == 2           \* at most MaxKinds kinds are watched in one run

alert_cooldown == 3

ttc_cooldown == 1

danger_cooldown == 1

warning_cooldown == 2

\* ttc_config.get('emergency_threshold', 3.0), seconds
emergency_threshold == 3

\* frames happen until the longest cooldown has elapsed after start-up
LastAlertTime == StartTime + alert_cooldown + 1

Kinds == {"low_visibility", "wet_road", "curve", "narrow_road",
          "ttc_warning", "obstacle_danger", "obstacle_warning"}

RoadRisks ==
    [long_term : [low_visibility : BOOLEAN, wet_road : BOOLEAN],
     short_term : [curve : BOOLEAN, narrow_road : BOOLEAN]]

\* objects as estimate_ttc returns them: a TTC at the threshold, one
\* above it, and one without a TTC
ObjNear == [depth |-> 80, ttc |-> <<3, 1>>, ttc_valid |-> TRUE]

ObjSlow == [depth |-> 50, ttc |-> <<7, 2>>, ttc_valid |-> TRUE]

ObjNew == [depth |-> 30, ttc |-> None, ttc_valid |-> FALSE]

AlertObjectLists == {<<>>, <<ObjNear, ObjSlow>>, <<ObjNew, ObjNear>>}

RiskInfos == [risk_level : {"safe", "warning", "danger"}]

\* the nearest object among those with a valid TTC, <<>> for None
get_nearest_object_ttc(objects_with_ttc) ==
    IF objects_with_ttc = <<>> THEN <<>>
    ELSE LET valid_objects == SelectSeq(objects_with_ttc, LAMBDA o : o.ttc_valid)
         IN  IF valid_objects = <<>> THEN <<>>
             ELSE <<min_by_depth(Head(valid_objects), Tail(valid_objects))>>

trigger_brake_alert(ttc_value, threshold) ==
    ttc_value # None /\ ttc_value[1] <= threshold * ttc_value[2]

\* self.last_road_risk_time.get(kind, 0)
last_time(last, kind) == IF kind \in DOMAIN last THEN last[kind] ELSE 0

\* fires as soon as the cooldown has elapsed, not after it
alert_step_eager(st, cond, kind, cooldown, now) ==
    IF cond /\ now - last_time(st.last, kind) >= cooldown
    THEN [last |-> Put(st.last, kind, now), calls |-> Append(st.calls, kind)]
    ELSE st

\* the cooldown test without the kind's condition
alert_step_unconditional(st, cond, kind, cooldown, now) ==
    IF now - last_time(st.last, kind) > cooldown
    THEN [last |-> Put(st.last, kind, now), calls |-> Append(st.calls, kind)]
    ELSE st

\* if cond: if now - last.get(kind, 0) > cooldown: alert(); last[kind] = now
alert_step(st, cond, kind, cooldown, now) ==
    IF cond /\ now - last_time(st.last, kind) > cooldown
    THEN [last |-> Put(st.last, kind, now), calls |-> Append(st.calls, kind)]
    ELSE st

\* whether the TTC emergency condition holds for the frame's objects
ttc_emergency(objects_with_ttc) ==
    LET nearest_obj == get_nearest_object_ttc(objects_with_ttc) IN
    /\ nearest_obj # <<>>
    /\ nearest_obj[1].ttc_valid
    /\ trigger_brake_alert(nearest_obj[1].ttc, emergency_threshold)

\* a danger level that also raises the warning alert
obstacle_alert_both(st, risk_level, now) ==
    IF risk_level = "danger"
    THEN alert_step(alert_step(st, TRUE, "obstacle_danger", danger_cooldown, now),
                    TRUE, "obstacle_warning", warning_cooldown, now)
    ELSE IF risk_level = "warning"
    THEN alert_step(st, TRUE, "obstacle_warning", warning_cooldown, now)
    ELSE st

\* if risk_level == 'danger': ... elif risk_level == 'warning': ...
obstacle_alert(st, risk_level, now) ==
    IF risk_level = "danger"
    THEN alert_step(st, TRUE, "obstacle_danger", danger_cooldown, now)
    ELSE IF risk_level = "warning"
    THEN alert_step(st, TRUE, "obstacle_warning", warning_cooldown, now)
    ELSE st

handle_risk_alerts(last, road_risks, objects_with_ttc, info, now) ==
    LET s0 == [last |-> last, calls |-> <<>>]
        s1 == alert_step(s0, road_risks.long_term.low_visibility,
                         "low_visibility", alert_cooldown, now)
        s2 == alert_step(s1, road_risks.long_term.wet_road,
                         "wet_road", alert_cooldown, now)
        s3 == alert_step(s2, road_risks.short_term.curve,
                         "curve", alert_cooldown, now)
        s4 == alert_step(s3, road_risks.short_term.narrow_road,
                         "narrow_road", alert_cooldown, now)
        s5 == alert_step(s4, ttc_emergency(objects_with_ttc),
                         "ttc_warning", ttc_cooldown, now)
    IN  obstacle_alert(s5, info.risk_level, now)

\* the kinds whose condition holds for the arguments of a frame
alert_conditions(road_risks, objects_with_ttc, info) ==
    {k \in Kinds :
        \/ k = "low_visibility" /\ road_risks.long_term.low_visibility
        \/ k = "wet_road" /\ road_risks.long_term.wet_road
        \/ k = "curve" /\ road_risks.short_term.curve
        \/ k = "narrow_road" /\ road_risks.short_term.narrow_road
        \/ k = "ttc_warning" /\ ttc_emergency(objects_with_ttc)
        \/ k = "obstacle_danger" /\ info.risk_level = "danger"
        \/ k = "obstacle_warning" /\ info.risk_level = "warning"}

\* VisualObstacleAvoidanceSystem.__init__ with the kinds the run will see
AlertStart(scenarios) ==
    /\ last_road_risk_time = <<>>
    /\ voice_calls = <<>>
    /\ alert_time = StartTime
    /\ alert_cond = {}
    /\ refired = FALSE
    /\ watched \in scenarios


Scenarios == {S \in SUBSET Kinds : Cardinality(S) <= MaxKinds}

\* one frame's _handle_risk_alerts
AlertFrame(road_risks, objects_with_ttc, info, now) ==
    \E out \in {handle_risk_alerts(last_road_risk_time, road_risks,
                                   objects_with_ttc, info, now)} :
        /\ last_road_risk_time' = out.last
        /\ voice_calls' = out.calls
        /\ alert_time' = now
        /\ alert_cond' = alert_conditions(road_risks, objects_with_ttc, info)
        /\ refired' = (\E i \in 1..Len(out.calls) :
                            out.calls[i] \in DOMAIN last_road_risk_time)
        /\ UNCHANGED watched

\* the road risks and the risk level in which exactly the kinds of conds hold
road_risks_of(conds) ==
    [long_term |-> [low_visibility |-> "low_visibility" \in conds,
                    wet_road |-> "wet_road" \in conds],
     short_term |-> [curve |-> "curve" \in conds,
                     narrow_road |-> "narrow_road" \in conds]]

risk_info_of(conds) ==
    [risk_level |-> IF "obstacle_danger" \in conds THEN "danger"
                    ELSE IF "obstacle_warning" \in conds THEN "warning"
                    ELSE "safe"]

\* frames whose true conditions are among the watched kinds, the clock
\* not running backwards
AlertNext ==
    \E conds \in SUBSET watched, objects_with_ttc \in AlertObjectLists :
        /\ alert_conditions(road_risks_of(conds), objects_with_ttc,
                            risk_info_of(conds)) = conds
        /\ \E now \in alert_time..LastAlertTime :
            AlertFrame(road_risks_of(conds), objects_with_ttc,
                       risk_info_of(conds), now)

(***************************************************************************)
(* InfoFusion.  Depths are decimetres.  A float of the depth map is the    *)
(* record [nan, v]: nan tells NaN, v is the value otherwise.  The image    *)
(* has image_height rows and image_width columns; a pixel is <<y, x>>.     *)
(***************************************************************************)
MaxDets == 2            \* detections per fuse_detection_and_depth call
MaxFilterObjs == 2      \* objects per filter_by_depth call in SpecFilter

image_width == 2

image_height == 2

\* camera_matrix: fx = fy = 1, principal point (cx, cy) = (1, 1)
fx == 1

fy == 1

cx == 1

cy == 1

Pixels == (0..(image_height - 1)) \X (0..(image_width - 1))

NaN == [nan |-> TRUE, v |-> 0]

Float(x) == [nan |-> FALSE, v |-> x]

\* samples of a depth map: NaN, zero, a negative value and valid depths;
\* the valid depths are even, so the mean of two of them is whole
DepthSamples == {NaN, Float(0), Float(0 - 20), Float(30), Float(50)}

AllDepthMaps == [Pixels -> DepthSamples]

\* depth maps that are constant along each column
SceneDepthMaps ==
    {[p \in Pixels |-> col[p[2]]] :
        col \in [0..(image_width - 1) -> {NaN, Float(0), Float(30), Float(50)}]}

\* mask values: 128 is not above the threshold of mask > 128
AllMasks == [Pixels -> {0, 128, 255}]

\* np.zeros(...); mask[y1:y2, x1:x2] = 255
bbox_mask(bbox) ==
    [p \in Pixels |-> IF /\ bbox[2] <= p[1] /\ p[1] < bbox[4]
                         /\ bbox[1] <= p[2] /\ p[2] < bbox[3]
                      THEN 255 ELSE 0]

\* bounding boxes <<x1, y1, x2, y2>> inside the image
LeftBox == <<0, 0, 1, 2>>

RightBox == <<1, 0, 2, 2>>

FullBox == <<0, 0, 2, 2>>

\* a detection of the YOLO detector
Detection(bbox, class_id, class_name) ==
    [bbox |-> bbox, confidence |-> 90, class_id |-> class_id,
     class_name |-> class_name]

Detections ==
    {Detection(LeftBox, 2, "car"), Detection(RightBox, 2, "car"),
     Detection(LeftBox, 0, "person"), Detection(FullBox, 2, "car")}

DetectionLists == UNION {[1..n -> Detections] : n \in 0..MaxDets}

\* masks the segmenter returns: the left box, nothing, and a mask whose
\* only marked pixel holds the value 128
SceneMasks ==
    {bbox_mask(LeftBox), [p \in Pixels |-> 0],
     [p \in Pixels |-> IF p = <<0, 0>> THEN 128 ELSE 0]}

\* the sample is kept by depths[~np.isnan(depths)]; depths[depths > 0]
valid_sample(s) == ~s.nan /\ s.v > 0

\* the valid samples under the pixel set S in ascending order
RECURSIVE sorted_depths(_, _)
sorted_depths(dm, S) ==
    IF S = {} THEN <<>>
    ELSE LET p == CHOOSE q \in S : \A r \in S : dm[q].v <= dm[r].v
         IN  <<dm[p].v>> \o sorted_depths(dm, S \ {p})

\* np.median: the middle sample, or the mean of the two middle samples
median(s) ==
    IF Len(s) % 2 = 1 THEN s[(Len(s) + 1) \div 2]
    ELSE (s[Len(s) \div 2] + s[(Len(s) \div 2) + 1]) \div 2

\* the mask threshold taken as mask >= 128
mask_bool_inclusive(mask) == {p \in Pixels : mask[p] >= 128}

\* (mask > 128).astype(bool)
mask_bool(mask) == {p \in Pixels : mask[p] > 128}

extract_depth_from_mask(dm, mask) ==
    LET depths == {p \in mask_bool(mask) : valid_sample(dm[p])}
    IN  IF depths = {} THEN NaN
        ELSE Float(median(sorted_depths(dm, depths)))

\* the test without np.isnan
depth_invalid_no_nan(depth) == ~depth.nan /\ depth.v <= 0

\* np.isnan(depth) or depth <= 0
depth_invalid(depth) == depth.nan \/ depth.v <= 0

\* x = (u - cx) * depth / fx, y = (v - cy) * depth / fy, z = depth
pixel_to_3d(u, v, depth) ==
    <<((u - cx) * depth) \div fx, ((v - cy) * depth) \div fy, depth>>

\* the mask of detection i: its segmentation mask, or its box when the
\* mask list is too short
mask_of(dets, masks, i) ==
    IF i <= Len(masks) THEN masks[i] ELSE bbox_mask(dets[i].bbox)

\* the loop body of fuse_detection_and_depth: the list with the fused
\* object of detection i appended, or unchanged
fuse_detection(acc, dets, masks, dm, i) ==
    LET mask == mask_of(dets, masks, i)
        depth == extract_depth_from_mask(dm, mask)
    IN  IF depth_invalid(depth) THEN acc
        ELSE LET bbox == dets[i].bbox
                 center_x == (bbox[1] + bbox[3]) \div 2
                 center_y == (bbox[2] + bbox[4]) \div 2
                 at_center == dm[<<center_y, center_x>>]
                 center_depth == IF at_center.nan \/ at_center.v <= 0
                                 THEN depth.v ELSE at_center.v
             IN  Append(acc, [bbox |-> bbox, mask |-> mask, depth |-> depth.v,
                              pos3d |-> pixel_to_3d(center_x, center_y,
                                                    center_depth),
                              confidence |-> dets[i].confidence,
                              class_id |-> dets[i].class_id,
                              class_name |-> dets[i].class_name])

RECURSIVE fuse_detection_and_depth(_, _, _, _, _)
fuse_detection_and_depth(acc, dets, masks, dm, i) ==
    IF i > Len(dets) THEN acc
    ELSE fuse_detection_and_depth(fuse_detection(acc, dets, masks, dm, i),
                                  dets, masks, dm, i + 1)

\* a filter whose upper bound is exclusive
in_depth_range_open(d, lo, hi) == lo <= d /\ d < hi

\* min_depth <= obj['depth'] <= max_depth
in_depth_range(d, lo, hi) == lo <= d /\ d <= hi

filter_by_depth(objects, lo, hi) ==
    SelectSeq(objects, LAMBDA obj : in_depth_range(obj.depth, lo, hi))

\* objects given to filter_by_depth on their own; depths on and next to
\* the bounds in use
FilterObjects ==
    [class_name : {"car"}, depth : {0, 1, 5, 50, 100, 101, 200, 201}]

FilterLists == UNION {[1..n -> FilterObjects] : n \in 0..MaxFilterObjs}

\* (min_depth, max_depth): the defaults, the stereo loop's and the mono
\* loop's
DepthBounds == {<<1, 100>>, <<1, 200>>, <<5, 100>>}

DefaultDepthBounds == {<<1, 100>>}

BlankMaps == {[p \in Pixels |-> NaN]}

BlankMasks == {[p \in Pixels |-> 0]}

\* InfoFusion.__init__ and the arguments of the calls to come
FusionStart(maps, detlists, maskset, emasks, lists, bounds) ==
    /\ depth_map \in maps
    /\ detections \in detlists
    /\ segmentation_masks
         \in UNION {[1..n -> maskset] : n \in 0..Len(detections)}
    /\ extract_mask \in emasks
    /\ filter_in \in lists
    /\ min_depth \in {b[1] : b \in bounds}
    /\ max_depth \in {b[2] : b \in bounds}
    /\ <<min_depth, max_depth>> \in bounds
    /\ fused_list = <<>>
    /\ region_depth = <<>>
    /\ filter_out = <<>>
    /\ fusion_pc = "start"

\* _extract_depth_from_mask(depth_map, extract_mask)
ExtractDepth ==
    /\ fusion_pc = "start"
    /\ region_depth' = <<extract_depth_from_mask(depth_map, extract_mask)>>
    /\ fusion_pc' = "extracted"
    /\ UNCHANGED <<depth_map, detections, segmentation_masks, fused_list,
                   extract_mask, filter_in, min_depth, max_depth, filter_out>>
    /\ UNCHANGED <<ttc_vars, risk_vars, radar_vars, alert_vars, frame_vars, display_vars, brake_vars, mono_vars>>

\* fuse_detection_and_depth(detections, segmentation_masks, depth_map)
FuseDetectionAndDepth ==
    /\ fusion_pc = "start"
    /\ fused_list' = fuse_detection_and_depth(<<>>, detections,
                                              segmentation_masks, depth_map, 1)
    /\ fusion_pc' = "fused"
    /\ UNCHANGED <<depth_map, detections, segmentation_masks, extract_mask,
                   region_depth, filter_in, min_depth, max_depth, filter_out>>
    /\ UNCHANGED <<ttc_vars, risk_vars, radar_vars, alert_vars, frame_vars, display_vars, brake_vars, mono_vars>>

\* filter_by_depth(filter_in, min_depth, max_depth)
FilterByDepth ==
    /\ fusion_pc = "start"
    /\ filter_out' = filter_by_depth(filter_in, min_depth, max_depth)
    /\ fusion_pc' = "filtered"
    /\ UNCHANGED <<depth_map, detections, segmentation_masks, fused_list,
                   extract_mask, region_depth, filter_in, min_depth, max_depth>>
    /\ UNCHANGED <<ttc_vars, risk_vars, radar_vars, alert_vars, frame_vars, display_vars, brake_vars, mono_vars>>

\* filter_by_depth applied to its own result with the same bounds
FilterAgain ==
    /\ fusion_pc = "filtered"
    /\ filter_in' = filter_out
    /\ filter_out' = filter_by_depth(filter_out, min_depth, max_depth)
    /\ fusion_pc' = "refiltered"
    /\ UNCHANGED <<depth_map, detections, segmentation_masks, fused_list,
                   extract_mask, region_depth, min_depth, max_depth>>
    /\ UNCHANGED <<ttc_vars, risk_vars, radar_vars, alert_vars, frame_vars, display_vars, brake_vars, mono_vars>>

\* filter_by_depth applied to the list fuse_detection_and_depth returned
FilterFused ==
    /\ fusion_pc = "fused"
    /\ filter_in' = fused_list
    /\ filter_out' = filter_by_depth(fused_list, min_depth, max_depth)
    /\ fusion_pc' = "fused_filtered"
    /\ UNCHANGED <<depth_map, detections, segmentation_masks, fused_list,
                   extract_mask, region_depth, min_depth, max_depth>>
    /\ UNCHANGED <<ttc_vars, risk_vars, radar_vars, alert_vars, frame_vars, display_vars, brake_vars, mono_vars>>

\* assess_risk applied to the filtered list
AssessFiltered ==
    /\ fusion_pc = "fused_filtered"
    /\ risk_objects' = filter_out
    /\ risk_info' = assess_risk(filter_out, danger_distance, warning_distance,
                                safe_distance, brake_distance, risk_threshold)
    /\ fusion_pc' = "assessed"
    /\ UNCHANGED <<depth_map, detections, segmentation_masks, fused_list,
                   extract_mask, region_depth, filter_in, min_depth, max_depth,
                   filter_out>>
    /\ UNCHANGED <<safe_distance, warning_distance, danger_distance,
                   brake_distance, risk_threshold>>
    /\ UNCHANGED <<ttc_vars, radar_vars, alert_vars, frame_vars, display_vars, brake_vars, mono_vars>>

DepthNext == ExtractDepth

FilterNext == FilterByDepth \/ FilterAgain

PipelineNext == FuseDetectionAndDepth \/ FilterFused \/ AssessFiltered

(***************************************************************************)
(* BrakeInterface and VisualObstacleAvoidanceSystem.process_frame          *)
(* (src/src/main.py).  Brake levels are thousandths.                       *)
(***************************************************************************)
\* BrakeInterface.__init__
BrakeStart ==
    [brake_flag |-> FALSE, brake_level |-> 0]

\* max(0.0, min(1.0, brake_level))
clamp_level(level) ==
    IF level < 0 THEN 0 ELSE IF level > 1000 THEN 1000 ELSE level

trigger_brake(risk_level, level) ==
    [brake_flag |-> TRUE, brake_level |-> clamp_level(level)]

release_brake ==
    [brake_flag |-> FALSE, brake_level |-> 0]

brake_interface(risk_level) ==
    IF risk_level = "danger" THEN trigger_brake("danger", 1000)
    ELSE IF risk_level = "warning" THEN trigger_brake("warning", 500)
    ELSE release_brake

\* what the cameras, the detector, the segmenter and the stereo matcher
\* deliver for one frame
Scene(dets, masks, dm) ==
    [detections |-> dets, masks |-> masks, depth_map |-> dm]

ColumnMap(left, right) ==
    [p \in Pixels |-> IF p[2] = 0 THEN left ELSE right]

\* no detection; a car at 3 m; a car at 3 m and a person at 5 m whose box
\* centres share a 50-pixel bucket; a car at 1 m; a car without depth; a
\* car at 25 m
FrameScenes ==
    {Scene(<<>>, <<>>, ColumnMap(NaN, NaN)),
     Scene(<<Detection(LeftBox, 2, "car")>>, <<>>, ColumnMap(Float(30), NaN)),
     Scene(<<Detection(LeftBox, 2, "car"), Detection(RightBox, 0, "person")>>,
           <<>>, ColumnMap(Float(30), Float(50))),
     Scene(<<Detection(LeftBox, 2, "car")>>, <<>>, ColumnMap(Float(10), NaN)),
     Scene(<<Detection(FullBox, 2, "car")>>, <<>>, ColumnMap(NaN, NaN)),
     Scene(<<Detection(LeftBox, 2, "car")>>, <<>>, ColumnMap(Float(250), NaN))}

\* the road risk kinds, which RoadRiskAssessor reports
RoadKinds == {"low_visibility", "wet_road", "curve", "narrow_road"}

\* frames happen until a history sample is older than max_age
LastFrameTime == StartTime + max_age + 1

\* the bounds process_frame gives to filter_by_depth: 0.1 m and 20.0 m
frame_min_depth == 1

frame_max_depth == 200

MaxCallers == 2         \* threads calling one BrakeInterface

MaxCallbacks == 2       \* callbacks registered on it

Callers == 1..MaxCallers

\* threading.Lock() not held
NoCaller == 0

\* a thread that is in none of the methods; called lists the (callback,
\* level) pairs its last trigger_brake handed out, observed is what its
\* last get_brake_status returned
IdleCaller ==
    [op |-> "none", pc |-> "done", risk_level |-> "safe", level |-> 0,
     i |-> 0, n0 |-> 0, called |-> <<>>, raised |-> FALSE,
     observed |-> BrakeStart]

\* PyQtDisplay.video_thread = None
NoThread == 0

\* VisualObstacleAvoidanceSystem.__init__, which also builds the window: no
\* thread, start enabled, stop disabled
FrameStart ==
    /\ brake_state = BrakeStart
    /\ frame_stages = <<>>
    /\ threads = <<>>
    /\ video_thread = NoThread
    /\ start_enabled = TRUE
    /\ stop_enabled = FALSE
    /\ gui_pc = "idle"
    /\ brake_lock = NoCaller
    /\ callers = [c \in Callers |-> IdleCaller]
    /\ callbacks = <<>>
    /\ committed = {BrakeStart}
    /\ mono_pc = "done"
    /\ mono_i = 0
    /\ radar_snapshot = <<>>
    /\ radar_seen = {<<>>}
    /\ guard_len = 0

\* process_frame on one scene; now is the clock estimate_ttc reads, later
\* the clock _handle_risk_alerts reads
process_frame(scene, road_risks, now, later) ==
    \E fused \in {fuse_detection_and_depth(<<>>, scene.detections, scene.masks,
                                            scene.depth_map, 1)} :
    \E filtered \in {filter_by_depth(fused, frame_min_depth, frame_max_depth)} :
    \E objects_with_ttc \in {estimate_loop(object_history, filtered, now,
                                           history_size, min_frames_for_ttc,
                                           <<>>, {}).results} :
    \E info \in {assess_risk(objects_with_ttc, danger_distance,
                             warning_distance, safe_distance, brake_distance,
                             risk_threshold)} :
        /\ depth_map' = scene.depth_map
        /\ detections' = scene.detections
        /\ segmentation_masks' = scene.masks
        /\ fused_list' = fused
        /\ filter_in' = fused
        /\ min_depth' = frame_min_depth
        /\ max_depth' = frame_max_depth
        /\ filter_out' = filtered
        /\ fusion_pc' = "frame"
        /\ UNCHANGED <<extract_mask, region_depth>>
        /\ estimate_ttc(filtered, now)
        /\ risk_objects' = objects_with_ttc
        /\ risk_info' = info
        /\ UNCHANGED <<safe_distance, warning_distance, danger_distance,
                       brake_distance, risk_threshold>>
        /\ AlertFrame(road_risks, objects_with_ttc, info, later)
        /\ brake_state' = IF info.should_brake
                          THEN brake_interface(info.risk_level)
                          ELSE brake_state
        /\ frame_stages' = <<"fusion", "filter", "ttc", "risk", "alerts">>
                            \o IF info.should_brake THEN <<"brake">> ELSE <<>>
        /\ UNCHANGED <<radar_vars, brake_vars, mono_vars>>

\* frames on the scenes, the clock not running backwards
ProcessFrame ==
    \E scene \in FrameScenes, conds \in SUBSET (watched \cap RoadKinds) :
        \E now \in alert_time..LastFrameTime :
            \E later \in now..LastFrameTime :
                /\ process_frame(scene, road_risks_of(conds), now, later)
                /\ UNCHANGED display_vars

FrameNext == ProcessFrame

(***************************************************************************)
(* PyQtDisplay and VideoThread (src/src/display/pyqt_display.py).  The     *)
(* GUI thread handles one event at a time; each VideoThread runs its loop  *)
(* a statement group at a time.  process_callback is set by main.py:88     *)
(* before the window is shown, and VisualObstacleAvoidanceSystem.running   *)
(* is True while the Qt event loop runs (main.py:283-292).                 *)
(***************************************************************************)
MaxThreads == 2         \* VideoThread objects created (presses of start)

\* VideoThread.__init__ followed by QThread.start(): running is True and
\* run() is about to test its loop condition
VideoThread == [running |-> TRUE, pc |-> "test"]

\* QThread.wait() returns once run() of thread t has returned
wait_done_nowait(t) == TRUE

wait_done(t) == threads[t].pc = "finished"

\* the one frame the camera delivers to the display loop: a car at 3 m
DisplayScenes ==
    {Scene(<<Detection(LeftBox, 2, "car")>>, <<>>, ColumnMap(Float(30), NaN))}

\* the start button is clicked
StartProcessing ==
    /\ gui_pc = "idle"
    /\ start_enabled
    /\ Len(threads) < MaxThreads
    /\ threads' = Append(threads, VideoThread)
    /\ video_thread' = Len(threads) + 1
    /\ start_enabled' = FALSE
    /\ stop_enabled' = TRUE
    /\ UNCHANGED <<gui_pc, ttc_vars, risk_vars, radar_vars, alert_vars,
                   fusion_vars, frame_vars, brake_vars, mono_vars>>

\* stop_processing up to the call of wait(): the thread is told to stop
stop_processing_begin(waiting) ==
    /\ gui_pc = "idle"
    /\ IF video_thread # NoThread
       THEN /\ threads' = [threads EXCEPT ![video_thread].running = FALSE]
            /\ gui_pc' = waiting
            /\ UNCHANGED <<video_thread, start_enabled, stop_enabled>>
       ELSE /\ start_enabled' = TRUE
            /\ stop_enabled' = FALSE
            /\ gui_pc' = IF waiting = "close_wait" THEN "closed" ELSE "idle"
            /\ UNCHANGED <<threads, video_thread>>
    /\ UNCHANGED <<ttc_vars, risk_vars, radar_vars, alert_vars, fusion_vars,
                   frame_vars, brake_vars, mono_vars>>

\* the stop button is clicked
StopProcessing ==
    /\ stop_enabled
    /\ stop_processing_begin("stop_wait")

\* the window is closed: closeEvent calls stop_processing
CloseEvent ==
    /\ gui_pc = "idle"
    /\ stop_processing_begin("close_wait")

\* wait() returns and stop_processing finishes
StopReturn ==
    /\ gui_pc \in {"stop_wait", "close_wait"}
    /\ wait_done(video_thread)
    /\ video_thread' = NoThread
    /\ start_enabled' = TRUE
    /\ stop_enabled' = FALSE
    /\ gui_pc' = IF gui_pc = "close_wait" THEN "closed" ELSE "idle"
    /\ UNCHANGED <<threads, ttc_vars, risk_vars, radar_vars, alert_vars,
                   fusion_vars, frame_vars, brake_vars, mono_vars>>

\* VideoThread.run: while self.running
ThreadTest(t) ==
    /\ threads[t].pc = "test"
    /\ threads' = [threads EXCEPT ![t].pc = IF threads[t].running
                                             THEN "callback" ELSE "finished"]
    /\ UNCHANGED <<video_thread, start_enabled, stop_enabled, gui_pc,
                   ttc_vars, risk_vars, radar_vars, alert_vars, fusion_vars,
                   frame_vars, brake_vars, mono_vars>>

\* process_frame_for_display returns: without a frame when the camera gave
\* no image, else after process_frame on the image
ThreadCallback(t) ==
    /\ threads[t].pc = "callback"
    /\ threads' = [threads EXCEPT ![t].pc = "sleep"]
    /\ UNCHANGED <<video_thread, start_enabled, stop_enabled, gui_pc>>
    /\ \/ UNCHANGED <<ttc_vars, risk_vars, radar_vars, alert_vars,
                      fusion_vars, frame_vars, brake_vars, mono_vars>>
       \/ \E scene \in DisplayScenes, now \in alert_time..LastFrameTime :
              process_frame(scene, road_risks_of({}), now, now)

\* msleep(33) ends
ThreadSleep(t) ==
    /\ threads[t].pc = "sleep"
    /\ threads' = [threads EXCEPT ![t].pc = "test"]
    /\ UNCHANGED <<video_thread, start_enabled, stop_enabled, gui_pc,
                   ttc_vars, risk_vars, radar_vars, alert_vars, fusion_vars,
                   frame_vars, brake_vars, mono_vars>>

ThreadStep == \E t \in 1..Len(threads) : ThreadTest(t) \/ ThreadCallback(t) \/ ThreadSleep(t)

DisplayNext ==
    StartProcessing \/ StopProcessing \/ CloseEvent \/ StopReturn \/ ThreadStep

(***************************************************************************)
(* BrakeInterface under concurrent callers                                 *)
(* (src/src/interface/brake_interface.py:13-79).  Each caller runs one     *)
(* method at a time, a statement per step; the two attribute writes of a   *)
(* locked section are separate steps.                                      *)
(***************************************************************************)
\* levels given to trigger_brake by other callers than brake_interface:
\* -0.5 and 1.5
TriggerLevels == {0 - 500, 1500}

RiskLevels == {"danger", "warning", "safe"}

\* what a registered callback does when called
CallbackKinds == {"returns", "raises"}

\* a lock that excludes nobody
lock_free_always(holder) == TRUE

\* Lock.acquire succeeds
lock_free(holder) == holder = NoCaller

\* an exception of a callback ends the loop over the n callbacks and leaves
\* trigger_brake
next_callback_propagating(kind, i, n) ==
    IF kind = "raises" THEN [i |-> n + 1, raised |-> TRUE]
    ELSE [i |-> i + 1, raised |-> FALSE]

\* for callback in self.callbacks, with try/except Exception around each
\* call: the exception is printed and the loop goes on to the next callback
next_callback(kind, i, n) == [i |-> i + 1, raised |-> FALSE]

\* the second argument of callback(risk_level, brake_level)
callback_level(level) == level

SetCaller(c, rec) == callers' = [callers EXCEPT ![c] = rec]

\* where a caller is once it has entered the locked section of a method
Enter(op, risk_level, level) ==
    [IdleCaller EXCEPT !.op = op, !.pc = IF op = "status" THEN "read" ELSE "flag",
                       !.risk_level = risk_level, !.level = level,
                       !.n0 = Len(callbacks)]

\* every variable no method of BrakeInterface touches
brake_others == <<frame_stages, ttc_vars, risk_vars, radar_vars, alert_vars,
                  fusion_vars, display_vars, mono_vars>>

\* a method is called and its with self.lock is entered; a caller that finds
\* the lock held waits, which leaves it where it was
Call(c, rec) ==
    /\ lock_free(brake_lock)
    /\ brake_lock' = c
    /\ SetCaller(c, rec)
    /\ UNCHANGED <<brake_state, callbacks, committed, brake_others>>

\* trigger_brake(risk_level, level) is called
CallTriggerBrake(c) ==
    /\ callers[c].pc = "done"
    /\ \E level \in TriggerLevels : Call(c, Enter("trigger", "danger", level))

\* brake_interface(risk_level) is called: it goes to trigger_brake or to
\* release_brake
CallBrakeInterface(c) ==
    /\ callers[c].pc = "done"
    /\ \E risk_level \in RiskLevels :
           Call(c, IF risk_level = "danger"
                   THEN Enter("trigger", "danger", 1000)
                   ELSE IF risk_level = "warning"
                   THEN Enter("trigger", "warning", 500)
                   ELSE Enter("release", risk_level, 0))

\* release_brake() is called
CallReleaseBrake(c) ==
    /\ callers[c].pc = "done"
    /\ Call(c, Enter("release", "safe", 0))

\* get_brake_status() is called
CallGetBrakeStatus(c) ==
    /\ callers[c].pc = "done"
    /\ Call(c, Enter("status", "safe", 0))

\* register_callback: self.callbacks.append(callback)
RegisterCallback ==
    /\ Len(callbacks) < MaxCallbacks
    /\ \E kind \in CallbackKinds : callbacks' = Append(callbacks, kind)
    /\ UNCHANGED <<brake_state, brake_lock, callers, committed, brake_others>>

\* self.brake_flag = True, or False in release_brake
WriteFlag(c) ==
    /\ callers[c].pc = "flag"
    /\ brake_state' = [brake_state EXCEPT
                          !.brake_flag = (callers[c].op = "trigger")]
    /\ SetCaller(c, [callers[c] EXCEPT !.pc = "level"])
    /\ UNCHANGED <<brake_lock, callbacks, committed, brake_others>>

\* self.brake_level = ..., after which the lock is left; trigger_brake goes
\* on to its callbacks, release_brake returns
WriteLevel(c) ==
    /\ callers[c].pc = "level"
    /\ brake_state' = [brake_state EXCEPT
                          !.brake_level = IF callers[c].op = "trigger"
                                          THEN clamp_level(callers[c].level)
                                          ELSE 0]
    /\ brake_lock' = NoCaller
    /\ committed' = committed \cup {brake_state'}
    /\ SetCaller(c, [callers[c] EXCEPT
                        !.pc = IF callers[c].op = "trigger"
                               THEN "callbacks" ELSE "done",
                        !.i = 1])
    /\ UNCHANGED <<callbacks, brake_others>>

\* return self.brake_flag, self.brake_level
ReadStatus(c) ==
    /\ callers[c].pc = "read"
    /\ brake_lock' = NoCaller
    /\ SetCaller(c, [callers[c] EXCEPT !.pc = "done", !.observed = brake_state])
    /\ UNCHANGED <<brake_state, callbacks, committed, brake_others>>

\* one round of the loop over self.callbacks, or its end
CallbackStep(c) ==
    /\ callers[c].pc = "callbacks"
    /\ IF callers[c].i > Len(callbacks)
       THEN SetCaller(c, [callers[c] EXCEPT !.pc = "done"])
       ELSE SetCaller(c, [callers[c] EXCEPT
                !.called = Append(@, [cb |-> callers[c].i,
                                      risk_level |-> callers[c].risk_level,
                                      level |-> callback_level(callers[c].level)]),
                !.i = next_callback(callbacks[callers[c].i], @,
                                    Len(callbacks)).i,
                !.raised = next_callback(callbacks[callers[c].i], callers[c].i,
                                         Len(callbacks)).raised])
    /\ UNCHANGED <<brake_state, brake_lock, callbacks, committed, brake_others>>

\* the calls and the steps of the callers cs
BrakeCall(cs) ==
    \E c \in cs :
        CallTriggerBrake(c) \/ CallReleaseBrake(c) \/ CallBrakeInterface(c)
            \/ CallGetBrakeStatus(c)

BrakeStep(cs) ==
    \E c \in cs :
        WriteFlag(c) \/ WriteLevel(c) \/ ReadStatus(c) \/ CallbackStep(c)

\* concurrent callers of an interface without callbacks
BrakeNext == BrakeCall(Callers) \/ BrakeStep(Callers)

\* one caller of an interface on which callbacks are registered meanwhile
CallbackNext == BrakeCall({1}) \/ BrakeStep({1}) \/ RegisterCallback

(***************************************************************************)
(* The radar stage of MonoObstacleAvoidanceSystem.process_frame            *)
(* (src/src/main_mono.py:225-236) with update_radar_data called from       *)
(* another thread.  filtered_objects is what the fusion and filter stages  *)
(* of the frame delivered.  Every access to the radar list is one locked   *)
(* copy; the association loop works on the copy, an object per step.       *)
(***************************************************************************)
\* what the radar thread delivers: nothing, one return, two returns
MonoRadarLists ==
    {<<>>,
     <<[distance |-> 50, azimuth |-> 0]>>,
     <<[distance |-> 60, azimuth |-> 0], [distance |-> 50, azimuth |-> 0]>>}

\* the live list read at every step of the loop
loop_radar_live(snapshot, live) == live

\* the list the association loop reads: the local radar_objects of
\* fuse_with_vision, copied once by get_radar_objects()
loop_radar(snapshot, live) == snapshot

\* if len(self.radar_fusion.get_radar_objects()) > 0
MonoGuard ==
    /\ mono_pc = "done"
    /\ \E v \in VisionLists :
           /\ vision_objects' = v
           /\ fused_objects' = v
    /\ guard_len' = Len(radar_objects)
    /\ radar_seen' = {radar_objects}
    /\ radar_snapshot' = <<>>
    /\ mono_i' = 0
    /\ mono_pc' = IF Len(radar_objects) > 0 THEN "call" ELSE "assess"
    /\ fused_current' = TRUE
    /\ UNCHANGED <<radar_objects, max_association_distance, ttc_vars,
                   risk_vars, alert_vars, fusion_vars, frame_vars,
                   display_vars, brake_vars>>

\* fuse_with_vision up to its loop: radar_objects = self.get_radar_objects();
\* if not radar_objects: return vision_objects
MonoSnapshot ==
    /\ mono_pc = "call"
    /\ radar_snapshot' = radar_objects
    /\ IF radar_objects = <<>> \/ vision_objects = <<>>
       THEN /\ mono_pc' = "assess"
            /\ mono_i' = 0
            /\ fused_objects' = IF radar_objects = <<>> THEN vision_objects
                                ELSE <<>>
       ELSE /\ mono_pc' = "loop"
            /\ mono_i' = 1
            /\ fused_objects' = <<>>
    /\ UNCHANGED <<radar_objects, vision_objects, max_association_distance,
                   fused_current, guard_len, radar_seen, ttc_vars, risk_vars,
                   alert_vars, fusion_vars, frame_vars, display_vars,
                   brake_vars>>

\* one round of for vision_obj in vision_objects
MonoAssociate ==
    /\ mono_pc = "loop"
    /\ fused_objects' =
           Append(fused_objects,
                  fuse_one(vision_objects[mono_i],
                           loop_radar(radar_snapshot, radar_objects),
                           max_association_distance))
    /\ mono_i' = mono_i + 1
    /\ mono_pc' = IF mono_i = Len(vision_objects) THEN "assess" ELSE "loop"
    /\ UNCHANGED <<radar_objects, vision_objects, max_association_distance,
                   fused_current, guard_len, radar_seen, radar_snapshot,
                   ttc_vars, risk_vars, alert_vars, fusion_vars, frame_vars,
                   display_vars, brake_vars>>

\* assess_risk(filtered_objects), then brake_interface or release_brake
MonoAssess ==
    /\ mono_pc = "assess"
    /\ \E info \in {assess_risk(fused_objects, danger_distance,
                                warning_distance, safe_distance,
                                brake_distance, risk_threshold)} :
           /\ risk_objects' = fused_objects
           /\ risk_info' = info
           /\ brake_state' = IF info.should_brake
                             THEN brake_interface(info.risk_level)
                             ELSE release_brake
    /\ mono_pc' = "done"
    /\ UNCHANGED <<safe_distance, warning_distance, danger_distance,
                   brake_distance, risk_threshold, frame_stages, radar_vars,
                   mono_i, radar_snapshot, radar_seen, guard_len, ttc_vars,
                   alert_vars, fusion_vars, display_vars, brake_vars>>

\* update_radar_data from the radar thread, at any point of the frame
MonoUpdateRadarData ==
    /\ \E l \in MonoRadarLists : update_radar_data(l)
    /\ radar_seen' = radar_seen \cup {radar_objects'}
    /\ UNCHANGED <<mono_pc, mono_i, radar_snapshot, guard_len, ttc_vars,
                   risk_vars, alert_vars, fusion_vars, frame_vars,
                   display_vars, brake_vars>>

MonoNext ==
    MonoGuard \/ MonoSnapshot \/ MonoAssociate \/ MonoAssess
        \/ MonoUpdateRadarData

(***************************************************************************)
(* Specifications: one component runs, the others stay as constructed.     *)
(***************************************************************************)
TTCInit ==
    /\ TTCStart(SmallConfigs) /\ RiskStart(DefaultDistances, {25}, {700}, {<<>>})
    /\ RadarStart({10}) /\ AlertStart({{}}) 
    /\ FusionStart(BlankMaps, {<<>>}, {}, BlankMasks, {<<>>}, DefaultDepthBounds)
    /\ FrameStart

SpecTTC ==
    /\ TTCInit
    /\ [][TTCNext /\ UNCHANGED <<risk_vars, radar_vars, alert_vars, fusion_vars, frame_vars, display_vars, brake_vars, mono_vars>>]_vars

TTCAnyInit ==
    /\ TTCStart(Configs) /\ RiskStart(DefaultDistances, {25}, {700}, {<<>>})
    /\ RadarStart({10}) /\ AlertStart({{}}) 
    /\ FusionStart(BlankMaps, {<<>>}, {}, BlankMasks, {<<>>}, DefaultDepthBounds)
    /\ FrameStart

SpecTTCAny ==
    /\ TTCAnyInit
    /\ [][TTCAnyNext /\ UNCHANGED <<risk_vars, radar_vars, alert_vars, fusion_vars, frame_vars, display_vars, brake_vars, mono_vars>>]_vars

RiskInit ==
    /\ TTCStart({<<2, 2>>})
    /\ RiskStart(RiskDistances, BrakeDistances, RiskThresholds, RiskObjectLists)
    /\ RadarStart({10}) /\ AlertStart({{}}) 
    /\ FusionStart(BlankMaps, {<<>>}, {}, BlankMasks, {<<>>}, DefaultDepthBounds)
    /\ FrameStart

SpecRisk ==
    /\ RiskInit
    /\ [][AssessRisk /\ UNCHANGED <<ttc_vars, radar_vars, alert_vars, fusion_vars, frame_vars, display_vars, brake_vars, mono_vars>>]_vars

RadarInit ==
    /\ TTCStart({<<2, 2>>}) /\ RiskStart(DefaultDistances, {25}, {700}, {<<>>})
    /\ RadarStart({10}) /\ AlertStart({{}}) 
    /\ FusionStart(BlankMaps, {<<>>}, {}, BlankMasks, {<<>>}, DefaultDepthBounds)
    /\ FrameStart

SpecRadar ==
    /\ RadarInit
    /\ [][RadarNext]_vars

AlertInit ==
    /\ TTCStart({<<2, 2>>}) /\ RiskStart(DefaultDistances, {25}, {700}, {<<>>})
    /\ RadarStart({10}) /\ AlertStart(Scenarios) 
    /\ FusionStart(BlankMaps, {<<>>}, {}, BlankMasks, {<<>>}, DefaultDepthBounds)
    /\ FrameStart

SpecAlert ==
    /\ AlertInit
    /\ [][AlertNext /\ UNCHANGED <<ttc_vars, risk_vars, radar_vars, fusion_vars, frame_vars, display_vars, brake_vars, mono_vars>>]_vars

\* _extract_depth_from_mask on every depth map and mask
DepthInit ==
    /\ TTCStart({<<2, 2>>}) /\ RiskStart(DefaultDistances, {25}, {700}, {<<>>})
    /\ RadarStart({10}) /\ AlertStart({{}})
    /\ FusionStart(AllDepthMaps, {<<>>}, {}, AllMasks, {<<>>}, DefaultDepthBounds)
    /\ FrameStart

SpecDepth ==
    /\ DepthInit
    /\ [][DepthNext]_vars

\* filter_by_depth, once and then on its own result
FilterInit ==
    /\ TTCStart({<<2, 2>>}) /\ RiskStart(DefaultDistances, {25}, {700}, {<<>>})
    /\ RadarStart({10}) /\ AlertStart({{}})
    /\ FusionStart(BlankMaps, {<<>>}, {}, BlankMasks, FilterLists, DepthBounds)
    /\ FrameStart

SpecFilter ==
    /\ FilterInit
    /\ [][FilterNext]_vars

\* fuse_detection_and_depth, filter_by_depth and assess_risk in a row
PipelineInit ==
    /\ TTCStart({<<2, 2>>}) /\ RiskStart(DefaultDistances, {25}, {700}, {<<>>})
    /\ RadarStart({10}) /\ AlertStart({{}})
    /\ FusionStart(SceneDepthMaps, DetectionLists, SceneMasks, BlankMasks,
                   {<<>>}, DefaultDepthBounds)
    /\ FrameStart

SpecPipeline ==
    /\ PipelineInit
    /\ [][PipelineNext]_vars

\* the window with its video thread, which calls process_frame_for_display
DisplayInit ==
    /\ TTCStart({<<2, 2>>}) /\ RiskStart(DefaultDistances, {25}, {700}, {<<>>})
    /\ RadarStart({10}) /\ AlertStart({{}})
    /\ FusionStart(BlankMaps, {<<>>}, {}, BlankMasks, {<<>>}, DefaultDepthBounds)
    /\ FrameStart

SpecDisplay ==
    /\ DisplayInit
    /\ [][DisplayNext]_vars

\* threads calling one BrakeInterface
BrakeInit ==
    /\ TTCStart({<<2, 2>>}) /\ RiskStart(DefaultDistances, {25}, {700}, {<<>>})
    /\ RadarStart({10}) /\ AlertStart({{}})
    /\ FusionStart(BlankMaps, {<<>>}, {}, BlankMasks, {<<>>}, DefaultDepthBounds)
    /\ FrameStart

SpecBrake ==
    /\ BrakeInit
    /\ [][BrakeNext]_vars

\* trigger_brake with registered callbacks
CallbackInit ==
    /\ TTCStart({<<2, 2>>}) /\ RiskStart(DefaultDistances, {25}, {700}, {<<>>})
    /\ RadarStart({10}) /\ AlertStart({{}})
    /\ FusionStart(BlankMaps, {<<>>}, {}, BlankMasks, {<<>>}, DefaultDepthBounds)
    /\ FrameStart

SpecCallback ==
    /\ CallbackInit
    /\ [][CallbackNext]_vars

\* the radar stage of mono frames against a radar thread
MonoInit ==
    /\ TTCStart({<<2, 2>>}) /\ RiskStart(DefaultDistances, {25}, {700}, {<<>>})
    /\ RadarStart({10}) /\ AlertStart({{}})
    /\ FusionStart(BlankMaps, {<<>>}, {}, BlankMasks, {<<>>}, DefaultDepthBounds)
    /\ FrameStart

SpecMono ==
    /\ MonoInit
    /\ [][MonoNext]_vars

\* the stereo driving loop: process_frame frame after frame
FrameInit ==
    /\ TTCStart({<<2, 2>>}) /\ RiskStart(DefaultDistances, {25}, {700}, {<<>>})
    /\ RadarStart({10}) /\ AlertStart({{}})
    /\ FusionStart(BlankMaps, {<<>>}, {}, BlankMasks, {<<>>}, DefaultDepthBounds)
    /\ FrameStart

SpecFrame ==
    /\ FrameInit
    /\ [][FrameNext]_vars

(***************************************************************************)
(* Helpers of the TTC claims, written without the operators above.         *)
(***************************************************************************)
HistoryOf(h, id) == IF id \in DOMAIN h THEN h[id] ELSE <<>>

LastN(s, n) ==
    IF Len(s) <= n THEN s ELSE [i \in 1..n |-> s[Len(s) - n + i]]

\* the samples the first i objects of a call at time t add to fingerprint id
SamplesUpTo(res, i, id, t) ==
    LET idx == SelectSeq([j \in 1..i |-> j],
                         LAMBDA j : generate_object_id(res[j]) = id)
    IN  [k \in 1..Len(idx) |-> [timestamp |-> t, distance |-> res[idx[k]].depth]]

\* the history of fingerprint id right after the i-th object of the call
\* that produced res at time t was appended to the histories h
SeenAt(h, res, i, id, t, size) ==
    LastN(HistoryOf(h, id) \o SamplesUpTo(res, i, id, t), size)

(***************************************************************************)
(* C1: after any sequence of estimate_ttc calls every fingerprint's        *)
(* history holds at most history_size samples, and a call leaves each      *)
(* retained history equal to the newest history_size samples of the old    *)
(* history followed by the call's samples (the oldest are the ones         *)
(* evicted).                                                               *)
(***************************************************************************)
C1_HistoryBounded ==
    /\ [](\A id \in DOMAIN object_history :
            Len(object_history[id]) <= history_size)
    /\ [][\A id \in DOMAIN object_history' :
            object_history'[id] =
                SeenAt(object_history, results', Len(results'), id,
                       current_time', history_size)]_vars

C1_Witness ==
    \E id \in evictions :
        /\ id \in DOMAIN object_history
        /\ Len(object_history[id]) = history_size
        /\ history_size = 3

(***************************************************************************)
(* C2: with frames in time order, a fingerprint that received a sample in  *)
(* the current call still has its history, that sample included, after     *)
(* the call.                                                               *)
(***************************************************************************)
C2_RefreshedSurvives ==
    in_order =>
        \A i \in 1..Len(results) :
            LET id == generate_object_id(results[i]) IN
            /\ id \in DOMAIN object_history
            /\ \E k \in 1..Len(object_history[id]) :
                 object_history[id][k] =
                     [timestamp |-> current_time, distance |-> results[i].depth]

(***************************************************************************)
(* C8: a TTC is computed from the newest sample and the sample             *)
(* min_frames_for_ttc - 1 positions before it; with dt > 0 and a positive  *)
(* closing speed it is d_new / closing speed, valid when 0 < ttc <= 100.   *)
(* The example of the claim: 10 m then 8 m one second apart.               *)
(***************************************************************************)
\* the claim for the i-th object of a step, the example's TTC being ex
C8_Object(i, ex) ==
    LET id   == generate_object_id(results'[i])
        seen == SeenAt(object_history, results', i, id, current_time',
                       history_size)
    IN  (Len(seen) >= min_frames_for_ttc) =>
        LET new == seen[Len(seen)]
            old == seen[Len(seen) - (min_frames_for_ttc - 1)]
            dt  == new.timestamp - old.timestamp
            closing == old.distance - new.distance   \* times 1/dt
        IN  (dt > 0 /\ closing > 0) =>
            LET ttc == <<new.distance * dt, closing>> IN
            /\ (0 < ttc[1] /\ ttc[1] <= 100 * ttc[2]) =>
                  /\ results'[i].ttc # None
                  /\ RatEq(results'[i].ttc, ttc)
                  /\ results'[i].ttc_valid
            /\ (old.distance = 100 /\ new.distance = 80 /\ dt = 1) =>
                  /\ results'[i].ttc # None
                  /\ RatEq(results'[i].ttc, <<ex, 1>>)
                  /\ results'[i].ttc_valid

\* the claim as stated: the example gives ttc = 8
C8_Original == [][\A i \in 1..Len(results') : C8_Object(i, 8)]_vars

\* amended: the example gives ttc = 8 / ((10 - 8) / 1) = 4
C8_TTCFormula == [][\A i \in 1..Len(results') : C8_Object(i, 4)]_vars

\* a TTC of 4 s computed from the last two of three samples
C8_Witness ==
    /\ history_size = 3
    /\ min_frames_for_ttc = 2
    /\ Len(results) = 1
    /\ results[1].ttc_valid
    /\ RatEq(results[1].ttc, <<4, 1>>)
    /\ LET id == generate_object_id(results[1]) IN
       /\ id \in DOMAIN object_history
       /\ Len(object_history[id]) = 3
       /\ object_history[id][1].distance = 0
       /\ object_history[id][2].distance = 100
       /\ object_history[id][3].distance = 80

(***************************************************************************)
(* C9: an object whose measured distance is equal to or greater than the   *)
(* distance of the older sample used for its fingerprint gets              *)
(* ttc_valid = false and ttc = None.                                       *)
(***************************************************************************)
C9_NotApproaching ==
    [][\A i \in 1..Len(results') :
        LET id   == generate_object_id(results'[i])
            seen == SeenAt(object_history, results', i, id, current_time',
                           history_size)
        IN  (Len(seen) >= min_frames_for_ttc) =>
            LET new == seen[Len(seen)]
                old == seen[Len(seen) - (min_frames_for_ttc - 1)]
            IN  (new.distance >= old.distance) =>
                    /\ results'[i].ttc = None
                    /\ ~results'[i].ttc_valid]_vars

\* a sample taken after the older one used, at the same or a larger distance
C9_Witness ==
    /\ min_frames_for_ttc = 2
    /\ \E i \in 1..Len(results) :
        LET id == generate_object_id(results[i]) IN
        /\ id \in DOMAIN object_history
        /\ Len(object_history[id]) = 3
        /\ object_history[id][3].timestamp = current_time
        /\ object_history[id][3].distance = results[i].depth
        /\ object_history[id][3].timestamp > object_history[id][2].timestamp
        /\ object_history[id][3].distance >= object_history[id][2].distance
        /\ object_history[id][2].distance < object_history[id][1].distance
        /\ results[i].ttc = None
        /\ ~results[i].ttc_valid

(***************************************************************************)
(* Helpers of the alert claims.                                            *)
(***************************************************************************)
Cooldown(k) ==
    IF k \in {"low_visibility", "wet_road", "curve", "narrow_road"} THEN 3
    ELSE IF k = "obstacle_warning" THEN 2
    ELSE 1

\* how often kind k was called in a frame
CallCount(calls, k) == Cardinality({i \in 1..Len(calls) : calls[i] = k})

\* the entry of kind k in a timestamp table, <<>> when it has none
Entry(last, k) == IF k \in DOMAIN last THEN <<last[k]>> ELSE <<>>

(***************************************************************************)
(* C3: for every alert kind whose condition is true in a frame: the frame  *)
(* fires the kind's voice alert, once, and sets lastFired to the frame's   *)
(* time when the kind never fired or its last firing is more than the      *)
(* cooldown back; within the cooldown of the last firing the frame does    *)
(* not fire and leaves lastFired alone.  So every frame in which the       *)
(* condition holds lies within the cooldown window of exactly one firing.  *)
(***************************************************************************)
C3_CooldownGate ==
    /\ [][\A k \in alert_cond' :
            IF \/ k \notin DOMAIN last_road_risk_time
               \/ alert_time' - last_road_risk_time[k] > Cooldown(k)
            THEN /\ CallCount(voice_calls', k) = 1
                 /\ Entry(last_road_risk_time', k) = <<alert_time'>>
            ELSE /\ CallCount(voice_calls', k) = 0
                 /\ Entry(last_road_risk_time', k) = Entry(last_road_risk_time, k)]_vars
    /\ [](\A k \in alert_cond :
            /\ k \in DOMAIN last_road_risk_time
            /\ last_road_risk_time[k] <= alert_time
            /\ alert_time - last_road_risk_time[k] <= Cooldown(k))

\* a kind fires again once its cooldown has elapsed, while another kind,
\* whose condition also holds, is still inside its window and stays silent
C3_Witness ==
    /\ refired
    /\ \E k \in alert_cond :
        /\ CallCount(voice_calls, k) = 0
        /\ last_road_risk_time[k] < alert_time

(***************************************************************************)
(* C4: a risk kind whose condition is false in the current frame neither   *)
(* calls its voice alert nor changes its entry in last_road_risk_time,     *)
(* whatever the other kinds do.                                            *)
(***************************************************************************)
C4_FalseFlagSilent ==
    [][\A k \in Kinds \ alert_cond' :
        /\ CallCount(voice_calls', k) = 0
        /\ Entry(last_road_risk_time', k) = Entry(last_road_risk_time, k)]_vars

\* one kind fires while another, whose cooldown has elapsed, has a false
\* condition and keeps its old timestamp
C4_Witness ==
    /\ voice_calls # <<>>
    /\ \E k \in (DOMAIN last_road_risk_time) \ alert_cond :
        alert_time - last_road_risk_time[k] > Cooldown(k)

(***************************************************************************)
(* Helpers of the risk claims.                                             *)
(***************************************************************************)
AssessedNonEmpty == risk_info # NoRiskInfo /\ risk_objects # <<>>

\* the least depth in the list given to assess_risk
NearestDepth ==
    CHOOSE d \in {risk_objects[i].depth : i \in 1..Len(risk_objects)} :
        \A i \in 1..Len(risk_objects) : d <= risk_objects[i].depth

\* the score assess_risk returns for a single object at depth d
ScoreAt(d) ==
    assess_risk(<<[class |-> "car", depth |-> d]>>, danger_distance,
                warning_distance, safe_distance, brake_distance,
                risk_threshold).risk_score

(***************************************************************************)
(* C5: assess_risk returns {safe, 0.0, None, False} for an empty list;     *)
(* otherwise nearest_object has the minimum depth d and the level is       *)
(* danger iff d <= danger, warning iff danger < d <= safe, safe iff        *)
(* d > safe.                                                               *)
(***************************************************************************)
C5_RiskLevels ==
    (risk_info # NoRiskInfo) =>
        IF risk_objects = <<>>
        THEN /\ risk_info.risk_level = "safe"
             /\ risk_info.risk_score = <<0, 1>>
             /\ risk_info.nearest_object = None
             /\ risk_info.should_brake = FALSE
        ELSE /\ Len(risk_info.nearest_object) = 1
             /\ \E i \in 1..Len(risk_objects) :
                    risk_objects[i] = risk_info.nearest_object[1]
             /\ risk_info.nearest_object[1].depth = NearestDepth
             /\ (risk_info.risk_level = "danger") <=>
                    (NearestDepth <= danger_distance)
             /\ (risk_info.risk_level = "warning") <=>
                    (danger_distance < NearestDepth /\ NearestDepth <= safe_distance)
             /\ (risk_info.risk_level = "safe") <=>
                    (NearestDepth > safe_distance)

\* two objects, the nearer one exactly at the danger threshold
C5_Witness ==
    /\ Len(risk_objects) = 2
    /\ risk_objects[1].depth > risk_objects[2].depth
    /\ risk_objects[2].depth = danger_distance
    /\ risk_info.risk_level = "danger"

(***************************************************************************)
(* C6: the risk score is monotonic non-decreasing as the nearest distance  *)
(* decreases: every smaller distance scores at least as much as the        *)
(* distance just assessed.                                                 *)
(***************************************************************************)
C6_ScoreMonotone ==
    AssessedNonEmpty =>
        \A d \in RiskDepths :
            (d < NearestDepth) => RatLe(risk_info.risk_score, ScoreAt(d))

(***************************************************************************)
(* C7: for a non-empty list, should_brake is true exactly when the nearest *)
(* distance is <= brake_distance or the clamped score is >= risk_threshold.*)
(***************************************************************************)
C7_ShouldBrake ==
    AssessedNonEmpty =>
        (risk_info.should_brake <=>
            \/ NearestDepth <= brake_distance
            \/ RatLe(<<risk_threshold, 1>>, risk_info.risk_score))

\* braking on distance alone: the score is below the threshold
C7_Witness ==
    /\ AssessedNonEmpty
    /\ risk_info.should_brake
    /\ NearestDepth <= brake_distance
    /\ RatLt(risk_info.risk_score, <<risk_threshold, 1>>)

(***************************************************************************)
(* C10: fuse_with_vision associates a vision object with a radar return    *)
(* only if that return is at the minimum (x,z) distance among all returns  *)
(* and that distance is strictly less than max_association_distance; among *)
(* returns at the same minimum distance the first in the list is taken.    *)
(***************************************************************************)
C10_NearestWithinRange ==
    (fused_current /\ radar_objects # <<>>) =>
        \A i \in 1..Len(fused_objects) :
            LET k == fused_objects[i].associated_radar
                pos == vision_objects[i].pos3d
                m == max_association_distance
            IN  /\ fused_objects[i].radar_fused <=> (k # 0)
                /\ (k # 0) =>
                    /\ k \in 1..Len(radar_objects)
                    /\ fused_objects[i].radar_distance = radar_objects[k].distance
                    /\ dist_sq25(pos, radar_objects[k]) < 25 * m * m
                    /\ \A j \in 1..Len(radar_objects) :
                         dist_sq25(pos, radar_objects[k])
                             <= dist_sq25(pos, radar_objects[j])
                    /\ \A j \in 1..(k - 1) :
                         dist_sq25(pos, radar_objects[k])
                             < dist_sq25(pos, radar_objects[j])

\* two returns 0.5 m either side of the object: the first listed is taken
C10_Witness ==
    /\ fused_current
    /\ radar_objects = <<[distance |-> 60, azimuth |-> 0],
                         [distance |-> 50, azimuth |-> 0]>>
    /\ max_association_distance = 10
    /\ Len(vision_objects) = 1
    /\ vision_objects[1].pos3d = <<0, 0, 55>>
    /\ Len(fused_objects) = 1
    /\ fused_objects[1].radar_fused
    /\ fused_objects[1].associated_radar = 1
    /\ fused_objects[1].radar_distance = 60

(***************************************************************************)
(* C11: for each vision object passed to fuse_with_vision, if some radar   *)
(* return lies within max_association_distance the returned object is      *)
(* marked radar_fused and its depth is the distance of the return it was   *)
(* associated with; otherwise it keeps its vision depth and is not marked; *)
(* with an empty radar list the vision list is returned unchanged.  The    *)
(* output always has one object per input object, in the same order.       *)
(***************************************************************************)
InRange(pos, radar, m) ==
    \E k \in 1..Len(radar) : dist_sq25(pos, radar[k]) < 25 * m * m

C11_FusedDepth ==
    fused_current =>
        /\ Len(fused_objects) = Len(vision_objects)
        /\ (radar_objects = <<>>) => (fused_objects = vision_objects)
        /\ (radar_objects # <<>>) =>
            \A i \in 1..Len(vision_objects) :
                LET v == vision_objects[i]
                    f == fused_objects[i]
                IN  /\ f.class = v.class
                    /\ f.pos3d = v.pos3d
                    /\ IF InRange(v.pos3d, radar_objects, max_association_distance)
                       THEN /\ f.radar_fused
                            /\ \E k \in 1..Len(radar_objects) :
                                 /\ dist_sq25(v.pos3d, radar_objects[k])
                                      < 25 * max_association_distance
                                           * max_association_distance
                                 /\ f.depth = radar_objects[k].distance
                                 /\ f.radar_distance = radar_objects[k].distance
                       ELSE /\ ~f.radar_fused
                            /\ f.depth = v.depth

\* one call in which the first object takes the radar distance, which
\* differs from its vision depth, and the second stays vision-only
C11_Witness ==
    /\ fused_current
    /\ radar_objects # <<>>
    /\ Len(vision_objects) = 2
    /\ Len(fused_objects) = 2
    /\ fused_objects[1].radar_fused
    /\ fused_objects[1].depth # vision_objects[1].depth
    /\ ~fused_objects[2].radar_fused
    /\ fused_objects[2].depth = vision_objects[2].depth

(***************************************************************************)
(* C19.  The formula of the branch warning < d <= safe, thousandths:       *)
(* 0.2 + (safe - d) / (safe - warning) * 0.3.  Its value at d = warning is *)
(* the value the branch takes as d approaches the warning distance.        *)
(***************************************************************************)
FarWarningScore(d) ==
    <<200 * (safe_distance - warning_distance) + 300 * (safe_distance - d),
      safe_distance - warning_distance>>

(***************************************************************************)
(* C19 as stated: the two formulas that report level warning are           *)
(* discontinuous at the warning distance: the score assess_risk gives at   *)
(* d = warning (branch danger < d <= warning) differs from the value the   *)
(* branch warning < d <= safe approaches there.                            *)
(***************************************************************************)
C19_Original ==
    (AssessedNonEmpty /\ NearestDepth = warning_distance) =>
        ~RatEq(risk_info.risk_score, FarWarningScore(warning_distance))

(***************************************************************************)
(* C19 amended: the two formulas that report level warning meet at the     *)
(* warning distance: the score at d = warning is 0.5, which is also the    *)
(* value the branch warning < d <= safe approaches there; that branch is   *)
(* the score of every d with warning < d <= safe.                          *)
(***************************************************************************)
C19_WarningContinuous ==
    AssessedNonEmpty =>
        /\ (NearestDepth = warning_distance) =>
            /\ risk_info.risk_level = "warning"
            /\ RatEq(risk_info.risk_score, <<500, 1>>)
            /\ RatEq(FarWarningScore(warning_distance), <<500, 1>>)
        /\ (warning_distance < NearestDepth /\ NearestDepth <= safe_distance) =>
            /\ risk_info.risk_level = "warning"
            /\ RatEq(risk_info.risk_score, FarWarningScore(NearestDepth))

\* an assessment whose nearest object is exactly at the warning distance
C19_Witness ==
    /\ AssessedNonEmpty
    /\ NearestDepth = warning_distance
    /\ risk_info.risk_level = "warning"

(***************************************************************************)
(* C20: after estimate_ttc(objects, now) returns, no retained history has  *)
(* an oldest sample older than now - max_age; and a tracked fingerprint    *)
(* that a call does not observe is removed by that call if the call's time *)
(* exceeds its oldest sample by more than max_age.                         *)
(***************************************************************************)
ObservedIds(res) == {generate_object_id(res[i]) : i \in 1..Len(res)}

ValidInside(dm, mask) ==
    {p \in Pixels : mask[p] > 128 /\ ~dm[p].nan /\ dm[p].v > 0}

\* m is the median of the samples of dm under the non-empty pixel set V
IsMedian(m, dm, V) ==
    LET n == Cardinality(V) IN
    IF n % 2 = 1
    THEN \E p \in V :
            /\ dm[p].v = m
            /\ 2 * Cardinality({q \in V : dm[q].v < m}) < n
            /\ 2 * Cardinality({q \in V : dm[q].v > m}) < n
    ELSE \E p \in V, q \in V :
            /\ p # q
            /\ dm[p].v <= dm[q].v
            /\ 2 * m = dm[p].v + dm[q].v
            /\ 2 * Cardinality({r \in V \ {p, q} : dm[r].v <= dm[p].v}) >= n - 2
            /\ 2 * Cardinality({r \in V \ {p, q} : dm[r].v >= dm[q].v}) >= n - 2

(***************************************************************************)
(* C14: _extract_depth_from_mask returns the median of exactly the depth   *)
(* samples that lie inside the mask (mask > 128) and are valid (not NaN,   *)
(* > 0), and NaN when the mask holds no valid sample.                      *)
(***************************************************************************)
C14_MaskMedian ==
    (fusion_pc = "extracted") =>
        LET V == ValidInside(depth_map, extract_mask)
            r == region_depth[1]
        IN  IF V = {} THEN r.nan
            ELSE ~r.nan /\ IsMedian(r.v, depth_map, V)

\* two valid samples of different depth inside the mask, next to an
\* invalid sample inside it and a valid sample outside it
C14_Witness ==
    /\ fusion_pc = "extracted"
    /\ Cardinality(ValidInside(depth_map, extract_mask)) = 2
    /\ region_depth[1] = Float(40)
    /\ \E p \in Pixels : extract_mask[p] > 128 /\ depth_map[p].nan
    /\ \E p \in Pixels : extract_mask[p] = 128 /\ depth_map[p] = Float(50)

(***************************************************************************)
(* C13: filter_by_depth returns exactly the objects whose depth d          *)
(* satisfies min_depth <= d <= max_depth, both bounds inclusive, in their  *)
(* original relative order; applied to its own result with the same        *)
(* bounds it returns that result.                                          *)
(***************************************************************************)
\* the indices of list L whose depth lies in [lo, hi], ascending
KeptIndices(L, lo, hi) ==
    SelectSeq([j \in 1..Len(L) |-> j],
              LAMBDA j : lo <= L[j].depth /\ L[j].depth <= hi)

C13_FilterExact ==
    /\ (fusion_pc = "filtered") =>
        LET idx == KeptIndices(filter_in, min_depth, max_depth)
        IN  /\ Len(filter_out) = Len(idx)
            /\ \A k \in 1..Len(idx) : filter_out[k] = filter_in[idx[k]]
    /\ (fusion_pc = "refiltered") => (filter_out = filter_in)

\* a filtered list that holds an object on each bound, filtered again
C13_Witness ==
    /\ fusion_pc = "refiltered"
    /\ Len(filter_out) = 2
    /\ filter_out[1].depth = max_depth
    /\ filter_out[2].depth = min_depth

(***************************************************************************)
(* C12: fuse_detection_and_depth emits a fused object for a detection if   *)
(* and only if the region of the detection holds a valid depth sample, so  *)
(* that its region depth is valid (not NaN and > 0); the other detections  *)
(* are dropped, and the emitted objects keep the relative order of their   *)
(* detections, so the output is never longer than the detection list.      *)
(***************************************************************************)
\* the indices of the detections whose region holds a valid sample
ResolvedIndices ==
    SelectSeq([j \in 1..Len(detections) |-> j],
              LAMBDA j : ValidInside(depth_map,
                                     mask_of(detections, segmentation_masks, j))
                             # {})

C12_EmitsIffValid ==
    (fusion_pc # "start") =>
        /\ Len(fused_list) = Len(ResolvedIndices)
        /\ Len(fused_list) <= Len(detections)
        /\ \A k \in 1..Len(fused_list) :
            LET det == detections[ResolvedIndices[k]] IN
            /\ fused_list[k].bbox = det.bbox
            /\ fused_list[k].class_name = det.class_name
            /\ fused_list[k].class_id = det.class_id
            /\ fused_list[k].confidence = det.confidence
            /\ fused_list[k].depth > 0

\* the first of two detections has no valid depth and is dropped, the
\* second is emitted
C12_Witness ==
    /\ fusion_pc = "fused"
    /\ Len(detections) = 2
    /\ detections[1].bbox # detections[2].bbox
    /\ Len(fused_list) = 1
    /\ fused_list[1].bbox = detections[2].bbox

(***************************************************************************)
(* C18: a single detection whose region depth is a constant 3.0 m yields   *)
(* one fused object with depth 3.0; the object survives filter_by_depth    *)
(* with bounds 0.1 and 10; assess_risk with danger = 1, warning = 2 and    *)
(* safe = 5 reports level warning with score 0.4.                          *)
(***************************************************************************)
\* one detection, every sample of its region 3.0 m
ConstantRegion ==
    /\ Len(detections) = 1
    /\ LET inside == mask_bool(mask_of(detections, segmentation_masks, 1))
       IN  /\ inside # {}
           /\ \A p \in inside : depth_map[p] = Float(30)

C18_EndToEnd ==
    (/\ ConstantRegion
     /\ <<min_depth, max_depth>> = <<1, 100>>
     /\ <<danger_distance, warning_distance, safe_distance>> = <<10, 20, 50>>) =>
        /\ (fusion_pc # "start") =>
            /\ Len(fused_list) = 1
            /\ fused_list[1].depth = 30
        /\ (fusion_pc \in {"fused_filtered", "assessed"}) =>
            (filter_out = fused_list)
        /\ (fusion_pc = "assessed") =>
            /\ risk_info.risk_level = "warning"
            /\ RatEq(risk_info.risk_score, <<400, 1>>)

\* the case assessed, the centre of the box lying outside the region
C18_Witness ==
    /\ ConstantRegion
    /\ fusion_pc = "assessed"
    /\ detections[1].bbox = FullBox
    /\ Len(segmentation_masks) = 1
    /\ depth_map[<<1, 1>>] = Float(50)
    /\ risk_info.risk_level = "warning"

(***************************************************************************)
(* C15: in every processed frame the stages run in the order fusion,       *)
(* depth-range filter, radar association, TTC estimation, risk assessment: *)
(* the list given to the risk assessor has passed through radar            *)
(* association and then TTC estimation in that same frame.                 *)
(***************************************************************************)
\* the stages of list names occur in trace, in that order
RECURSIVE InOrder(_, _)
InOrder(names, trace) ==
    IF names = <<>> THEN TRUE
    ELSE IF trace = <<>> THEN FALSE
    ELSE IF Head(trace) = Head(names) THEN InOrder(Tail(names), Tail(trace))
    ELSE InOrder(names, Tail(trace))

C15_StageOrder ==
    (frame_stages # <<>>) =>
        InOrder(<<"fusion", "filter", "radar", "ttc", "risk">>, frame_stages)

(***************************************************************************)
(* C17: two objects the pipeline hands to estimate_ttc in one frame whose  *)
(* box centres fall in the same 50-pixel bucket but whose class names      *)
(* differ get different fingerprints.                                      *)
(***************************************************************************)
C17_ClassInFingerprint ==
    (fusion_pc = "frame") =>
        \A i \in 1..Len(results), j \in 1..Len(results) :
            LET a == generate_object_id(results[i])
                b == generate_object_id(results[j])
            IN  (/\ a[2] = b[2]
                 /\ a[3] = b[3]
                 /\ results[i].class_name # results[j].class_name)
                => a # b

(***************************************************************************)
(* C16: under every interleaving of the start, stop and close events with  *)
(* the video threads, at most one call of the per-frame processing         *)
(* callback is in progress, and it is made by the thread the window        *)
(* currently holds; every other thread has left its loop.                  *)
(***************************************************************************)
C16_OneCallback ==
    /\ Cardinality({t \in 1..Len(threads) : threads[t].pc = "callback"}) <= 1
    /\ \A t \in 1..Len(threads) :
           (threads[t].pc # "finished") => (video_thread = t)

\* a second thread is processing a frame, after a first one has processed
\* frames and was stopped
C16_Witness ==
    /\ Len(threads) = 2
    /\ threads[1].pc = "finished"
    /\ threads[2].pc = "callback"
    /\ frame_stages # <<>>
    /\ Len(HistoryOf(object_history, <<"unknown", 0, 0>>)) = 2

(***************************************************************************)
(* C21: an object whose fingerprint holds fewer than min_frames_for_ttc    *)
(* samples right after its own sample was appended (a fingerprint seen     *)
(* for the first time, or again after its history was purged) is returned  *)
(* with ttc = None and ttc_valid = false.                                  *)
(***************************************************************************)
C21_TooFewSamples ==
    [][\A i \in 1..Len(results') :
        LET id   == generate_object_id(results'[i])
            seen == SeenAt(object_history, results', i, id, current_time',
                           history_size)
        IN  (Len(seen) < min_frames_for_ttc) =>
                /\ results'[i].ttc = None
                /\ ~results'[i].ttc_valid]_vars

\* a fingerprint with two samples, the newer one nearer and later, so that
\* a TTC could be computed from them, where three are required
C21_Witness ==
    /\ min_frames_for_ttc = 3
    /\ Len(results) = 1
    /\ results[1].ttc = None
    /\ ~results[1].ttc_valid
    /\ LET h == HistoryOf(object_history, generate_object_id(results[1])) IN
       /\ Len(h) = 2
       /\ h[1].timestamp < h[2].timestamp
       /\ h[1].distance > h[2].distance
       /\ h[2].distance > 0

(***************************************************************************)
(* C22: the braking decision is monotone in distance: when assess_risk     *)
(* returns should_brake = true for the nearest distance just assessed, it  *)
(* returns should_brake = true for every smaller nearest distance, the     *)
(* thresholds being the same.                                              *)
(***************************************************************************)
\* the decision assess_risk returns for a single object at depth d
BrakeAt(d) ==
    assess_risk(<<[class |-> "car", depth |-> d]>>, danger_distance,
                warning_distance, safe_distance, brake_distance,
                risk_threshold).should_brake

C22_BrakeMonotone ==
    (AssessedNonEmpty /\ risk_info.should_brake) =>
        \A d \in RiskDepths : (d < NearestDepth) => BrakeAt(d)

(***************************************************************************)
(* C23: in the stereo driving loop, after every processed frame whose      *)
(* assessment has should_brake = false the brake is released (brake_flag   *)
(* false, brake_level 0), also when an earlier frame triggered it.         *)
(***************************************************************************)
C23_BrakeFollowsFrame ==
    (frame_stages # <<>> /\ ~risk_info.should_brake) =>
        (brake_state = [brake_flag |-> FALSE, brake_level |-> 0])

(***************************************************************************)
(* C24: under every interleaving of concurrent trigger_brake,              *)
(* brake_interface, release_brake and get_brake_status calls, every state  *)
(* get_brake_status returns has 0 <= brake_level <= 1 and brake_level = 0  *)
(* when brake_flag is false, and is a pair some locked section wrote as a  *)
(* whole (or the initial pair), never a half-updated one.                  *)
(***************************************************************************)
C24_StatusConsistent ==
    \A c \in Callers :
        (callers[c].op = "status" /\ callers[c].pc = "done") =>
            /\ callers[c].observed.brake_level >= 0
            /\ callers[c].observed.brake_level <= 1000
            /\ (~callers[c].observed.brake_flag) =>
                   (callers[c].observed.brake_level = 0)
            /\ callers[c].observed \in committed

\* a status read that saw the full brake, returned while another caller is
\* between the two writes of release_brake
C24_Witness ==
    \E c \in Callers, o \in Callers :
        /\ c # o
        /\ callers[c].op = "status"
        /\ callers[c].pc = "done"
        /\ callers[c].observed = [brake_flag |-> TRUE, brake_level |-> 1000]
        /\ callers[o].op = "release"
        /\ callers[o].pc = "level"
        /\ brake_state = [brake_flag |-> FALSE, brake_level |-> 1000]

(***************************************************************************)
(* C25: on every trigger_brake call each registered callback is invoked    *)
(* with the brake level the interface stores and reports through           *)
(* get_brake_status, that is with the level clamped to [0, 1].             *)
(***************************************************************************)
C25_CallbackLevel ==
    \A c \in {1} :
        (callers[c].op = "trigger" /\ callers[c].pc \in {"callbacks", "done"}) =>
            \A k \in 1..Len(callers[c].called) :
                /\ callers[c].called[k].level = brake_state.brake_level
                /\ callers[c].called[k].level >= 0
                /\ callers[c].called[k].level <= 1000

(***************************************************************************)
(* C26: a callback that raises does not keep the callbacks registered      *)
(* after it from being invoked in the same trigger_brake call, does not    *)
(* propagate out of trigger_brake, and does not undo the brake state: when *)
(* the call returns, every callback that was registered when it began has  *)
(* been invoked once, in order, and the brake is set at the clamped level. *)
(***************************************************************************)
C26_CallbackIsolation ==
    /\ [](\A c \in {1} :
            (callers[c].op = "trigger" /\ callers[c].pc = "done") =>
                /\ ~callers[c].raised
                /\ Len(callers[c].called) >= callers[c].n0
                /\ \A k \in 1..Len(callers[c].called) :
                       callers[c].called[k].cb = k
                /\ brake_state.brake_flag
                /\ brake_state.brake_level =
                       (IF callers[c].level < 0 THEN 0
                        ELSE IF callers[c].level > 1000 THEN 1000
                        ELSE callers[c].level))
    /\ [][\A c \in {1} :
            (callers[c].pc = "callbacks") => (brake_state' = brake_state)]_vars

\* a returned trigger_brake whose first callback raised and whose second
\* callback was invoked after it
C26_Witness ==
    /\ callers[1].op = "trigger"
    /\ callers[1].pc = "done"
    /\ callers[1].n0 = 2
    /\ callbacks = <<"raises", "returns">>
    /\ Len(callers[1].called) = 2
    /\ callers[1].called[2].cb = 2
    /\ brake_state = [brake_flag |-> TRUE, brake_level |-> 1000]

(***************************************************************************)
(* C27: a fuse_with_vision call that interleaves with update_radar_data    *)
(* calls associates all its vision objects against one single radar list,  *)
(* a list the interface held, never a mixture; and a mono frame whose      *)
(* guard found the radar list non-empty has its objects fused against a    *)
(* non-empty list.                                                         *)
(***************************************************************************)
\* the frame passed its guard and fuse_with_vision has returned
GuardedFuseReturned == guard_len > 0 /\ mono_pc \in {"assess", "done"}

\* every object of the result comes from the one list the call copied
FusedAgainstOneList ==
    GuardedFuseReturned =>
        /\ radar_snapshot \in radar_seen
        /\ fused_objects = fuse_list(vision_objects, radar_snapshot,
                                     max_association_distance)

\* the claim as stated: the list fused against is non-empty
C27_Original ==
    /\ FusedAgainstOneList
    /\ GuardedFuseReturned => (radar_snapshot # <<>>)

\* amended: the list fused against is non-empty unless an update emptied
\* the radar list after the guard, and then the objects come back unchanged
C27_OneRadarList ==
    /\ FusedAgainstOneList
    /\ GuardedFuseReturned =>
           \/ radar_snapshot # <<>>
           \/ /\ <<>> \in radar_seen
              /\ fused_objects = vision_objects

\* a frame of two objects that passed the guard and came back unfused,
\* the radar list having been emptied in between
C27_Witness ==
    /\ GuardedFuseReturned
    /\ radar_snapshot = <<>>
    /\ Len(vision_objects) = 2
    /\ fused_objects = vision_objects
    /\ Cardinality(radar_seen) >= 2

(***************************************************************************)
(* C28: alert kinds are independent: a frame changes the                   *)
(* last_road_risk_time entry of a kind only when that kind itself fires in *)
(* the frame, whatever the other kinds do, and sets it to the frame's      *)
(* time; a kind fires at most once per frame, and at most one of           *)
(* obstacle_danger and obstacle_warning fires in a frame.                  *)
(***************************************************************************)
C28_KindsIndependent ==
    /\ [][\A k \in Kinds :
            /\ CallCount(voice_calls', k) <= 1
            /\ IF CallCount(voice_calls', k) = 1
               THEN Entry(last_road_risk_time', k) = <<alert_time'>>
               ELSE Entry(last_road_risk_time', k) = Entry(last_road_risk_time, k)]_vars
    /\ [](CallCount(voice_calls, "obstacle_danger")
            + CallCount(voice_calls, "obstacle_warning") <= 1)

\* obstacle_danger fires in a frame while obstacle_warning, which fired in
\* an earlier frame, is not raised and keeps its older entry
C28_Witness ==
    /\ CallCount(voice_calls, "obstacle_danger") = 1
    /\ last_road_risk_time["obstacle_danger"] = alert_time
    /\ "obstacle_warning" \in DOMAIN last_road_risk_time
    /\ last_road_risk_time["obstacle_warning"] < alert_time

(***************************************************************************)
(* C29: the braking decision of a frame does not depend on TTC: whatever   *)
(* the earlier frames left in the histories, should_brake and risk_level   *)
(* of a frame are those assess_risk gives for the frame's filtered objects *)
(* without any TTC field, the brake command is issued exactly on that      *)
(* should_brake, and a frame whose nearest valid TTC is at or below the    *)
(* emergency threshold raises at most the ttc_warning voice alert: unless  *)
(* the distances ask for braking, it leaves the brake as it was.           *)
(***************************************************************************)
C29_BrakeIgnoresTTC ==
    [][LET base == assess_risk(filter_out', danger_distance, warning_distance,
                               safe_distance, brake_distance, risk_threshold)
       IN  /\ risk_info'.should_brake = base.should_brake
           /\ risk_info'.risk_level = base.risk_level
           /\ brake_state' = IF base.should_brake
                             THEN brake_interface(base.risk_level)
                             ELSE brake_state
           /\ (\E i \in 1..Len(frame_stages') : frame_stages'[i] = "brake")
                  = base.should_brake
           /\ (ttc_emergency(risk_objects') /\ ~base.should_brake)
                  => brake_state' = brake_state]_vars

\* a frame with a car at 3 m that earlier frames make close in at 2 m/s:
\* the TTC of 1.5 s raises the ttc_warning alert and the brake stays released
C29_Witness ==
    /\ frame_stages # <<>>
    /\ ttc_emergency(risk_objects)
    /\ CallCount(voice_calls, "ttc_warning") = 1
    /\ ~risk_info.should_brake
    /\ brake_state = BrakeStart

(***************************************************************************)
(* C30: each fingerprint's history receives at most one sample per         *)
(* estimate_ttc call: a call at a time later than every earlier call       *)
(* leaves in every history at most one sample with the call's timestamp,   *)
(* and that sample is strictly later than the sample before it, also when  *)
(* several objects of the frame fall into one fingerprint bucket.          *)
(***************************************************************************)
C30_OneSamplePerCall ==
    [][(in_order /\ current_time' > current_time) =>
          \A id \in DOMAIN object_history' :
              LET h == object_history'[id] IN
              /\ Cardinality({i \in 1..Len(h) :
                                 h[i].timestamp = current_time'}) <= 1
              /\ \A i \in 1..(Len(h) - 1) :
                     (h[i + 1].timestamp = current_time')
                         => h[i].timestamp < h[i + 1].timestamp]_vars

====
